---- MODULE Spec2Model ----
(***************************************************************************)
(* Projection engine of the Dorrigo property simulator                     *)
(* (src/app_working4.py, the variant with separate earner retirement,      *)
(* post-retirement income and the lump-sum mortgage payoff).               *)
(*                                                                         *)
(* Money is an integer number of currency units.  Python floats are        *)
(* modelled as exact rationals wherever the chosen inputs make the         *)
(* arithmetic exact (integral monthly rates, growth factors that are       *)
(* powers of two); a float quotient a*b/c is rounded to the nearest unit   *)
(* (MulDivRound), which keeps the rounding residue of the amortisation     *)
(* formula observable.  A python list / DataFrame column is a function on  *)
(* 0..len-1.  An LVR is the rational <<numerator, denominator>>.           *)
(***************************************************************************)
EXTENDS Integers, Sequences, FiniteSets, TLC

\* ------------------------------------------------------------------ bounds
MaxYears == 3          \* largest projection horizon explored
MaxTerm == 2           \* largest loan term (years) explored
MaxEduYears == 8       \* largest horizon explored for the education phasing
MaxDuration == 4       \* largest duration of the new education cost
PowCap == 20000000     \* (1+r)^n above this is out of the float range (OverflowError)
BalanceCap == 500000000  \* largest balance of a series that is explored

\* ------------------------------------------------------- arithmetic helpers
Max(a, b) == IF a >= b THEN a ELSE b
Min(a, b) == IF a <= b THEN a ELSE b

RECURSIVE Pow(_, _)
Pow(b, e) == IF e = 0 THEN 1 ELSE b * Pow(b, e - 1)

\* b^e, saturating at PowCap + 1: PowSat(b, e) > PowCap is the condition under
\* which the float power b ** e raises OverflowError
RECURSIVE PowSat(_, _)
PowSat(b, e) ==
  IF e = 0 THEN 1
  ELSE LET p == PowSat(b, e - 1)
       IN  IF p > PowCap \div b THEN PowCap + 1 ELSE p * b

\* b^e, saturating at cap + 1 (used only to select the explored inputs)
RECURSIVE PowSatTo(_, _, _)
PowSatTo(b, e, cap) ==
  IF e = 0 THEN 1
  ELSE LET p == PowSatTo(b, e - 1, cap)
       IN  IF p > cap \div b THEN cap + 1 ELSE p * b

\* math.ceil(a / b) for b > 0
CeilDiv(a, b) == -((-a) \div b)

\* the float expression a * b / c (a >= 0, b >= 0, c > 0) rounded to the
\* nearest unit; a*b/c = a*(b div c) + a*(b mod c)/c
MulDivRound(a, b, c) == a * (b \div c) + (2 * (a * (b % c)) + c) \div (2 * c)

\* the radix of the long multiplication: a power of two R with R * c <= 2^30
\* (c below 2^29)
Radix(c) ==
  IF c <= 1024 THEN 1048576
  ELSE IF c <= 32768 THEN 32768
  ELSE IF c <= 1048576 THEN 1024
  ELSE IF c <= 33554432 THEN 32
  ELSE IF c <= 268435456 THEN 4
  ELSE 2

\* <<quotient, remainder>> of x * b by c for 0 <= x < c, digit by digit of b
\* in the radix R, so that no intermediate value leaves the integer range
RECURSIVE DivMod(_, _, _, _)
DivMod(x, b, c, R) ==
  IF b = 0 THEN <<0, 0>>
  ELSE LET h == DivMod(x, b \div R, c, R)
           t == h[2] * R + (b % R) * x
       IN  <<h[1] * R + t \div c, t % c>>

\* a * b / c rounded to the nearest unit, for operands of up to nine digits:
\* directly where the products fit, digit by digit where they do not
MulDivWide(a, b, c) ==
  IF b % c = 0 THEN a * (b \div c)
  ELSE IF a <= (2147483647 - c) \div (2 * (b % c)) THEN MulDivRound(a, b, c)
  ELSE LET dm == DivMod(a % c, b, c, Radix(c))
       IN  (a \div c) * b + dm[1] + (IF 2 * dm[2] >= c THEN 1 ELSE 0)

RECURSIVE GCD(_, _)
GCD(a, b) == IF b = 0 THEN a ELSE GCD(b, a % b)

\* value * (1 + rate/100) ** year, the factor (100+rate)/100 in lowest terms
Grow(value, rate, year) ==
  LET g == GCD(100 + rate, 100)
  IN  MulDivRound(value, Pow((100 + rate) \div g, year), Pow(100 \div g, year))

\* annual_interest_rate / 100 / 12
MonthlyRate(annual_interest_rate) == annual_interest_rate \div 1200

\* ---------------------------------------------------------------- StampDuty
\* the seven brackets: inclusive upper threshold (0: none), base duty, floor,
\* and the marginal rate num/den (0.0125, 0.015, 0.0175, 0.035, 0.045, 0.055, 0.07)

\* variant: the fifth bracket starts from a base of 10,350
DutyBracketsLowFifthBase ==
  << [upto |-> 16000,   base |-> 0,      floor |-> 0,       num |-> 1,  den |-> 80],
     [upto |-> 35000,   base |-> 200,    floor |-> 16000,   num |-> 3,  den |-> 200],
     [upto |-> 93000,   base |-> 485,    floor |-> 35000,   num |-> 7,  den |-> 400],
     [upto |-> 351000,  base |-> 1500,   floor |-> 93000,   num |-> 7,  den |-> 200],
     [upto |-> 1168000, base |-> 10350,  floor |-> 351000,  num |-> 9,  den |-> 200],
     [upto |-> 3504000, base |-> 47295,  floor |-> 1168000, num |-> 11, den |-> 200],
     [upto |-> 0,       base |-> 175775, floor |-> 3504000, num |-> 7,  den |-> 100] >>

DutyBrackets ==
  << [upto |-> 16000,   base |-> 0,      floor |-> 0,       num |-> 1,  den |-> 80],
     [upto |-> 35000,   base |-> 200,    floor |-> 16000,   num |-> 3,  den |-> 200],
     [upto |-> 93000,   base |-> 485,    floor |-> 35000,   num |-> 7,  den |-> 400],
     [upto |-> 351000,  base |-> 1500,   floor |-> 93000,   num |-> 7,  den |-> 200],
     [upto |-> 1168000, base |-> 10530,  floor |-> 351000,  num |-> 9,  den |-> 200],
     [upto |-> 3504000, base |-> 47295,  floor |-> 1168000, num |-> 11, den |-> 200],
     [upto |-> 0,       base |-> 175775, floor |-> 3504000, num |-> 7,  den |-> 100] >>

\* the branch of the if / elif chain taken for a positive property_value
BracketOf(property_value) ==
  IF \E k \in 1..6 : property_value <= DutyBrackets[k].upto
  THEN CHOOSE k \in 1..6 :
         /\ property_value <= DutyBrackets[k].upto
         /\ \A j \in 1..(k - 1) : property_value > DutyBrackets[j].upto
  ELSE 7

\* what the double arithmetic adds to the exact ceiling.  The double 0.035
\* lies above 7/200 by a relative 9.5e-17.  When excess * 0.035 is a whole
\* number p the rounded product exceeds p as soon as that surplus is more
\* than half a unit in the last place of p (p >= 2390 below 4096, p >= 4780
\* below 8192), and the surplus survives the addition of 1500 while the sum
\* stays in the binade of the product (sum < 4096, resp. < 8192); math.ceil
\* then returns p + 1501.  The other six rates produce no such surplus on
\* whole property values up to 6,000,000.
FloatSurplus(k, excess) ==
  IF k = 4 /\ (excess * 7) % 200 = 0
  THEN LET p == (excess * 7) \div 200
       IN  IF (2394 <= p /\ p <= 2590) \/ (4781 <= p /\ p <= 6685) THEN 1 ELSE 0
  ELSE 0

\* math.ceil(base + (property_value - floor) * rate) for the k-th branch
DutyInBracket(k, property_value) ==
  LET b == DutyBrackets[k]
      excess == property_value - b.floor
  IN  CeilDiv(b.base * b.den + excess * b.num, b.den) + FloatSurplus(k, excess)

calculate_nsw_stamp_duty(property_value) ==
  IF property_value <= 0 THEN 0
  ELSE DutyInBracket(BracketOf(property_value), property_value)

\* ------------------------------------------------------------ LmiEstimator
\* tier of the premium in 1/1000 of the loan, by LVR = loan*100/price
LmiTierPerMille(loan_amount, property_price) ==
  IF loan_amount * 100 <= 85 * property_price THEN 10
  ELSE IF loan_amount * 100 <= 90 * property_price THEN 18
  ELSE IF loan_amount * 100 <= 95 * property_price THEN 35
  ELSE 45

\* variant: the premium already applies at an LVR of exactly 80
estimate_lmi_from80(property_price, loan_amount) ==
  IF property_price <= 0 \/ loan_amount <= 0
  THEN [lmi |-> 0, lvr |-> <<0, 1>>]
  ELSE LET lvr == <<loan_amount * 100, property_price>>
           tier == LmiTierPerMille(loan_amount, property_price)
       IN  [lmi |-> IF lvr[1] >= 80 * lvr[2]
                    THEN CeilDiv(loan_amount * tier * 219, 200000) ELSE 0,
            lvr |-> lvr]

estimate_lmi(property_price, loan_amount) ==
  IF property_price <= 0 \/ loan_amount <= 0
  THEN [lmi |-> 0, lvr |-> <<0, 1>>]
  ELSE LET lvr == <<loan_amount * 100, property_price>>
           tier == LmiTierPerMille(loan_amount, property_price)
           \* loan * tier/1000 * 1.095, rounded up
           lmi_cost == IF lvr[1] > 80 * lvr[2]
                       THEN CeilDiv(loan_amount * tier * 219, 200000)
                       ELSE 0
       IN  [lmi |-> lmi_cost, lvr |-> lvr]

\* ------------------------------------------------------------ MortgageMath
\* (p/q) ** n as a nine-digit decimal float <<m, e>>, value m / 10^e, rounded
\* after every multiplication (the double keeps sixteen digits); a power that
\* has reached 10^8 is out of the explored float range and is left there
RECURSIVE GrowthFloat(_, _, _)
GrowthFloat(p, q, n) ==
  IF n = 0 \/ p <= 0 \/ q <= 0 THEN <<100000000, 8>>
  ELSE LET prev == GrowthFloat(p, q, n - 1)
       IN  IF prev[2] < 1 THEN prev
           ELSE LET m == MulDivWide(prev[1], p, q)
                IN  IF m >= 1000000000 THEN <<(m + 5) \div 10, prev[2] - 1>>
                    ELSE <<m, prev[2]>>

\* (1 + monthly_interest_rate) ** num_payments for a monthly rate that is
\* not a whole number: 1 + rate/1200 in lowest terms, raised as a float
FractionalGrowth(annual_interest_rate, num_payments) ==
  LET g == GCD(1200 + annual_interest_rate, 1200)
  IN  GrowthFloat((1200 + annual_interest_rate) \div g, 1200 \div g, num_payments)

\* the float gf is out of the float range
FloatOverflows(gf) ==
  IF gf[2] < 1 THEN TRUE
  ELSE IF gf[2] = 1 THEN gf[1] > 10 * PowCap
  ELSE FALSE

\* that power is out of the float range
FractionalGrowthOverflows(annual_interest_rate, num_payments) ==
  FloatOverflows(FractionalGrowth(annual_interest_rate, num_payments))

\* loan * (r * growth) / (growth - 1) for such a rate, to seven digits; 0
\* when the power overflows
FractionalRatePayment(loan_amount, annual_interest_rate, num_payments) ==
  LET gf == FractionalGrowth(annual_interest_rate, num_payments)
  IN  IF FloatOverflows(gf) THEN 0
      ELSE LET denominator == gf[1] - Pow(10, gf[2])
           IN  IF denominator = 0 THEN MulDivRound(loan_amount, 1, num_payments)
               ELSE LET growth_over_denominator ==
                          MulDivWide(gf[1], 10000000, denominator)
                        per_unit == MulDivWide(growth_over_denominator,
                                               annual_interest_rate, 1200)
                    IN  MulDivWide(loan_amount, per_unit, 10000000)

\* the exponentiation inside the try block raises OverflowError
PaymentOverflows(loan_amount, annual_interest_rate, loan_term_years) ==
  /\ ~(loan_amount <= 0 \/ annual_interest_rate <= 0 \/ loan_term_years <= 0)
  /\ IF annual_interest_rate % 1200 # 0
     THEN FractionalGrowthOverflows(annual_interest_rate, loan_term_years * 12)
     ELSE PowSat(1 + MonthlyRate(annual_interest_rate), loan_term_years * 12) > PowCap

\* variant: a non-positive rate is served by the straight-line payment
calculate_monthly_mortgage_payment_straight_line(loan_amount, annual_interest_rate, loan_term_years) ==
  IF loan_amount <= 0 \/ loan_term_years <= 0 THEN 0
  ELSE LET monthly_interest_rate == MonthlyRate(annual_interest_rate)
           num_payments == loan_term_years * 12
           growth == Pow(1 + monthly_interest_rate, num_payments)
           denominator == growth - 1
       IN  IF annual_interest_rate <= 0 THEN MulDivRound(loan_amount, 1, num_payments)
           ELSE IF monthly_interest_rate = 0 THEN MulDivRound(loan_amount, 1, num_payments)
           ELSE IF PowSat(1 + monthly_interest_rate, num_payments) > PowCap THEN 0
           ELSE IF denominator = 0 THEN MulDivRound(loan_amount, 1, num_payments)
           ELSE MulDivRound(loan_amount, monthly_interest_rate * growth, denominator)

\* variant: an overflowing power is taken as infinite (interest-only payment)
calculate_monthly_mortgage_payment_no_except(loan_amount, annual_interest_rate, loan_term_years) ==
  IF loan_amount <= 0 \/ annual_interest_rate <= 0 \/ loan_term_years <= 0 THEN 0
  ELSE LET monthly_interest_rate == MonthlyRate(annual_interest_rate)
           num_payments == loan_term_years * 12
           growth == Pow(1 + monthly_interest_rate, num_payments)
           denominator == growth - 1
       IN  IF num_payments = 0 THEN 0
           ELSE IF monthly_interest_rate = 0 THEN MulDivRound(loan_amount, 1, num_payments)
           ELSE IF PowSat(1 + monthly_interest_rate, num_payments) > PowCap
           THEN loan_amount * monthly_interest_rate
           ELSE IF denominator = 0 THEN MulDivRound(loan_amount, 1, num_payments)
           ELSE MulDivRound(loan_amount, monthly_interest_rate * growth, denominator)

calculate_monthly_mortgage_payment(loan_amount, annual_interest_rate, loan_term_years) ==
  IF loan_amount <= 0 \/ annual_interest_rate <= 0 \/ loan_term_years <= 0 THEN 0
  ELSE IF annual_interest_rate % 1200 # 0
  THEN \* a monthly rate with a fraction: the same formula in float arithmetic
       FractionalRatePayment(loan_amount, annual_interest_rate, loan_term_years * 12)
  ELSE LET monthly_interest_rate == MonthlyRate(annual_interest_rate)
           num_payments == loan_term_years * 12
           growth == Pow(1 + monthly_interest_rate, num_payments)
           denominator == growth - 1
       IN  IF num_payments = 0 THEN 0
           ELSE IF monthly_interest_rate = 0 THEN MulDivRound(loan_amount, 1, num_payments)
           \* except OverflowError: st.warning(...); return 0
           ELSE IF PowSat(1 + monthly_interest_rate, num_payments) > PowCap THEN 0
           ELSE IF denominator = 0 THEN MulDivRound(loan_amount, 1, num_payments)
           ELSE MulDivRound(loan_amount, monthly_interest_rate * growth, denominator)

\* the amortisation loop, months i..num_payments, from balance cur at i-1
RECURSIVE BalanceLoop(_, _, _, _, _)
BalanceLoop(cur, i, num_payments, monthly_payment, monthly_interest_rate) ==
  IF i > num_payments THEN << >>
  ELSE LET interest == Max(0, cur * monthly_interest_rate)
           principal_paid == Max(0, monthly_payment - interest)
           nxt == Max(0, cur - principal_paid)
       IN  IF nxt = 0
           THEN <<0>> \o [k \in 1..(num_payments - i) |-> 0]
           ELSE <<nxt>> \o BalanceLoop(nxt, i + 1, num_payments, monthly_payment,
                                       monthly_interest_rate)

\* variant: the series starts after the first payment (no origination entry)
calculate_loan_balance_over_time_no_origin(loan_amount, annual_interest_rate, monthly_payment, loan_term_years) ==
  LET num_payments == loan_term_years * 12
  IN  IF loan_amount <= 0 \/ loan_term_years <= 0
      THEN [i \in 0..num_payments |-> 0]
      ELSE IF monthly_payment <= 0
      THEN IF annual_interest_rate > 0
           THEN [i \in 0..num_payments |->
                   loan_amount * Pow(1 + MonthlyRate(annual_interest_rate), i)]
           ELSE [i \in 0..num_payments |-> loan_amount]
      ELSE LET tail == BalanceLoop(loan_amount, 1, num_payments, monthly_payment,
                                   MonthlyRate(annual_interest_rate))
           IN  [i \in 0..(num_payments - 1) |-> tail[i + 1]]

\* variant: without a payment the balance is held at the origination amount
calculate_loan_balance_over_time_flat_without_payment(loan_amount, annual_interest_rate, monthly_payment, loan_term_years) ==
  LET num_payments == loan_term_years * 12
  IN  IF loan_amount <= 0 \/ loan_term_years <= 0
      THEN [i \in 0..num_payments |-> 0]
      ELSE IF monthly_payment <= 0
      THEN [i \in 0..num_payments |-> loan_amount]
      ELSE LET tail == BalanceLoop(loan_amount, 1, num_payments, monthly_payment,
                                   MonthlyRate(annual_interest_rate))
           IN  [i \in 0..num_payments |-> IF i = 0 THEN loan_amount ELSE tail[i]]

calculate_loan_balance_over_time(loan_amount, annual_interest_rate, monthly_payment, loan_term_years) ==
  LET num_payments == loan_term_years * 12
  IN  IF loan_amount <= 0 \/ loan_term_years <= 0
      THEN [i \in 0..num_payments |-> 0]
      ELSE IF monthly_payment <= 0
      THEN IF annual_interest_rate > 0
           THEN [i \in 0..num_payments |->
                   loan_amount * Pow(1 + MonthlyRate(annual_interest_rate), i)]
           ELSE [i \in 0..num_payments |-> loan_amount]
      ELSE LET tail == BalanceLoop(loan_amount, 1, num_payments, monthly_payment,
                                   MonthlyRate(annual_interest_rate))
           IN  [i \in 0..num_payments |-> IF i = 0 THEN loan_amount ELSE tail[i]]

\* len(lst) for a list held as a function on 0..len-1
Len0(lst) == Cardinality(DOMAIN lst)

\* sum of f[i] for i in lo..hi-1
RECURSIVE SumRange(_, _, _)
SumRange(f, lo, hi) == IF lo >= hi THEN 0 ELSE f[lo] + SumRange(f, lo + 1, hi)

\* loan_balance padded with zeros / trimmed to full_term_length_indices entries
FitToTerm(loan_balance, full_term_length_indices) ==
  [i \in 0..(full_term_length_indices - 1) |->
     IF i < Len0(loan_balance) THEN loan_balance[i] ELSE 0]

\* payment_this_year of the loop body for one year (before year 0 is zeroed)
PaymentThisYear(lb, year, full_term_payments, monthly_rate) ==
  LET year_start_month_index == year * 12
      year_end_month_index == (year + 1) * 12
  IN  IF year_start_month_index < full_term_payments
      THEN LET interest == [m \in DOMAIN lb |-> Max(0, lb[m] * monthly_rate)]
               interest_paid_this_year ==
                 SumRange(interest, year_start_month_index,
                          Min(year_end_month_index, full_term_payments))
               start_bal_idx == Min(year_start_month_index, Len0(lb) - 1)
               end_bal_idx == Min(year_end_month_index, Len0(lb) - 1)
               principal_paid_this_year == Max(0, lb[start_bal_idx] - lb[end_bal_idx])
           IN  principal_paid_this_year + interest_paid_this_year
      ELSE 0

\* variant: the payment computed for year 0 is kept
calculate_annual_totals_keep_year0(loan_balance, monthly_payment, loan_term_years, projection_years, annual_interest_rate) ==
  LET num_years_df == projection_years + 1
  IN  IF Len0(loan_balance) = 0 \/ loan_term_years <= 0
      THEN [y \in 0..(num_years_df - 1) |->
              [Year |-> y, Loan_Balance |-> 0, Annual_Mortgage_Payment |-> 0]]
      ELSE LET full_term_payments == loan_term_years * 12
               lb == FitToTerm(loan_balance, full_term_payments + 1)
               monthly_rate == IF annual_interest_rate > 0
                               THEN MonthlyRate(annual_interest_rate) ELSE 0
           IN  [y \in 0..(num_years_df - 1) |->
                  [Year |-> y,
                   Loan_Balance |-> IF y * 12 < Len0(lb) THEN lb[y * 12] ELSE 0,
                   Annual_Mortgage_Payment |->
                     PaymentThisYear(lb, y, full_term_payments, monthly_rate)]]

\* rows Year 0..projection_years with Loan_Balance and Annual_Mortgage_Payment
calculate_annual_totals(loan_balance, monthly_payment, loan_term_years, projection_years, annual_interest_rate) ==
  LET num_years_df == projection_years + 1
  IN  IF Len0(loan_balance) = 0 \/ loan_term_years <= 0
      THEN [y \in 0..(num_years_df - 1) |->
              [Year |-> y, Loan_Balance |-> 0, Annual_Mortgage_Payment |-> 0]]
      ELSE LET full_term_payments == loan_term_years * 12
               lb == FitToTerm(loan_balance, full_term_payments + 1)
               monthly_rate == IF annual_interest_rate > 0
                               THEN MonthlyRate(annual_interest_rate) ELSE 0
           IN  [y \in 0..(num_years_df - 1) |->
                  [Year |-> y,
                   Loan_Balance |-> IF y * 12 < Len0(lb) THEN lb[y * 12] ELSE 0,
                   Annual_Mortgage_Payment |->
                     IF y = 0 THEN 0
                     ELSE PaymentThisYear(lb, y, full_term_payments, monthly_rate)]]

\* -------------------------------------------------- IncomeExpenseProjector
\* current_year_user_income after the retirement adjustment
UserIncome(i, year) ==
  IF i.include_super_events /\ year >= i.user_retire_year
  THEN i.post_retirement_income_user
  ELSE Grow(i.annual_user_income, i.income_growth_rate, year)

\* variant: the partner's income stops with the user's retirement
PartnerIncomeCoupled(i, year) ==
  IF i.include_super_events /\ year >= i.user_retire_year
  THEN i.post_retirement_income_partner
  ELSE Grow(i.annual_partner_income, i.income_growth_rate, year)

\* current_year_partner_income after the retirement adjustment
PartnerIncome(i, year) ==
  IF i.include_super_events /\ year >= i.wife_retire_year
  THEN i.post_retirement_income_partner
  ELSE Grow(i.annual_partner_income, i.income_growth_rate, year)

\* current_year_lump_sum
LumpSum(i, year) ==
  IF i.include_super_events
  THEN (IF year = i.user_retire_year THEN i.user_super_amount ELSE 0)
       + (IF year = i.wife_retire_year THEN i.wife_super_amount ELSE 0)
  ELSE 0

\* variant: the original fee stops one year early (year < change point)
EducationCostStrict(i, year) ==
  LET edu_change_ends_after_year == i.years_until_edu_change_x2 \div 2
      new_edu_cost_start_year == edu_change_ends_after_year + 1
      new_edu_cost_end_year == new_edu_cost_start_year + i.duration_of_new_cost - 1
      base_cost_no_inflation == i.num_children_boarding * i.annual_boarding_fee_per_child
      new_cost_base_no_inflation == i.new_annual_edu_cost_per_child * i.num_children_boarding
  IN  IF i.include_education_change
      THEN IF year < edu_change_ends_after_year
           THEN Grow(base_cost_no_inflation, i.inflation_rate, year)
           ELSE IF new_edu_cost_start_year <= year /\ year <= new_edu_cost_end_year
           THEN Grow(new_cost_base_no_inflation, i.inflation_rate, year)
           ELSE 0
      ELSE Grow(base_cost_no_inflation, i.inflation_rate, year)

\* current_year_education; years_until_edu_change is held in half years
EducationCost(i, year) ==
  LET edu_change_ends_after_year == i.years_until_edu_change_x2 \div 2
      new_edu_cost_start_year == edu_change_ends_after_year + 1
      new_edu_cost_end_year == new_edu_cost_start_year + i.duration_of_new_cost - 1
      base_cost_no_inflation == i.num_children_boarding * i.annual_boarding_fee_per_child
      new_cost_base_no_inflation == i.new_annual_edu_cost_per_child * i.num_children_boarding
  IN  IF i.include_education_change
      THEN IF year <= edu_change_ends_after_year
           THEN Grow(base_cost_no_inflation, i.inflation_rate, year)
           ELSE IF new_edu_cost_start_year <= year /\ year <= new_edu_cost_end_year
           THEN Grow(new_cost_base_no_inflation, i.inflation_rate, year)
           ELSE 0
      ELSE Grow(base_cost_no_inflation, i.inflation_rate, year)

\* df['col'].cumsum() at index y
RECURSIVE CumSum(_, _)
CumSum(net, y) == IF y = 0 THEN net[0] ELSE CumSum(net, y - 1) + net[y]

\* variant: the lump sums are left out of Total_Income
ProjectionRowWithoutLumpSums(i, loan_data_df, year) ==
  LET emp == UserIncome(i, year) + PartnerIncome(i, year)
      rental == Grow(i.annual_rental_income, i.rental_growth_rate, year)
      agist == Grow(i.annual_agistment_income, i.inflation_rate, year)
      lump == LumpSum(i, year)
      living == Grow(i.annual_living_expenses, i.inflation_rate, year)
      edu == EducationCost(i, year)
      rates == Grow(i.annual_council_rates, i.inflation_rate, year)
      ins == Grow(i.annual_insurance, i.inflation_rate, year)
      maint == Grow(i.annual_maintenance, i.inflation_rate, year)
      agc == Grow(i.annual_agistment_costs, i.inflation_rate, year)
      addl == Grow(i.annual_additional_property_expenses, i.inflation_rate, year)
      amp == IF year \in DOMAIN loan_data_df
             THEN loan_data_df[year].Annual_Mortgage_Payment ELSE 0
      excl == living + edu + rates + ins + maint + agc + addl
  IN  [Year |-> year, Employment_Income |-> emp, Rental_Income |-> rental,
       Agistment_Income |-> agist, Lump_Sum_Income |-> lump,
       Total_Income |-> emp + rental + agist,
       Living_Expenses |-> living, Education_Expenses |-> edu,
       Council_Rates |-> rates, Insurance |-> ins, Maintenance |-> maint,
       Agistment_Costs |-> agc, Additional_Property_Expenses |-> addl,
       Annual_Mortgage_Payment |-> amp,
       Total_Expenses_Excl_Mortgage |-> excl,
       Total_Expenses |-> excl + amp]

\* one row of the projection before Net_Cashflow / Cumulative_Cashflow
ProjectionRow(i, loan_data_df, year) ==
  LET emp == UserIncome(i, year) + PartnerIncome(i, year)
      rental == Grow(i.annual_rental_income, i.rental_growth_rate, year)
      agist == Grow(i.annual_agistment_income, i.inflation_rate, year)
      lump == LumpSum(i, year)
      living == Grow(i.annual_living_expenses, i.inflation_rate, year)
      edu == EducationCost(i, year)
      rates == Grow(i.annual_council_rates, i.inflation_rate, year)
      ins == Grow(i.annual_insurance, i.inflation_rate, year)
      maint == Grow(i.annual_maintenance, i.inflation_rate, year)
      agc == Grow(i.annual_agistment_costs, i.inflation_rate, year)
      addl == Grow(i.annual_additional_property_expenses, i.inflation_rate, year)
      \* left merge on Year, missing -> 0
      amp == IF year \in DOMAIN loan_data_df
             THEN loan_data_df[year].Annual_Mortgage_Payment ELSE 0
      excl == living + edu + rates + ins + maint + agc + addl
  IN  [Year |-> year, Employment_Income |-> emp, Rental_Income |-> rental,
       Agistment_Income |-> agist, Lump_Sum_Income |-> lump,
       Total_Income |-> emp + rental + agist + lump,
       Living_Expenses |-> living, Education_Expenses |-> edu,
       Council_Rates |-> rates, Insurance |-> ins, Maintenance |-> maint,
       Agistment_Costs |-> agc, Additional_Property_Expenses |-> addl,
       Annual_Mortgage_Payment |-> amp,
       Total_Expenses_Excl_Mortgage |-> excl,
       Total_Expenses |-> excl + amp]

\* rows with Net_Cashflow (year 0 forced to 0 when zero_year0) and its cumsum
WithCashflow(rows, net, zero_year0) ==
  LET net0 == [y \in DOMAIN rows |-> IF zero_year0 /\ rows[y].Year = 0 THEN 0 ELSE net[y]]
  IN  [y \in DOMAIN rows |->
         [c \in (DOMAIN rows[y]) \cup {"Net_Cashflow", "Cumulative_Cashflow"} |->
            IF c = "Net_Cashflow" THEN net0[y]
            ELSE IF c = "Cumulative_Cashflow" THEN CumSum(net0, y)
            ELSE rows[y][c]]]

project_income_expenses(i, loan_data_df) ==
  LET rows == [y \in 0..i.projection_years |-> ProjectionRow(i, loan_data_df, y)]
      net == [y \in DOMAIN rows |-> rows[y].Total_Income - rows[y].Total_Expenses]
  IN  WithCashflow(rows, net, TRUE)

\* pd.merge(projection_data, loan_data[['Year','Loan_Balance']], how='left')
\* followed by merged_data['Mortgage_Lump_Sum_Payment'] = 0.0
MergeLoanBalance(projection, loan_data_df) ==
  [y \in DOMAIN projection |->
     [c \in (DOMAIN projection[y]) \cup {"Loan_Balance", "Mortgage_Lump_Sum_Payment"} |->
        IF c = "Loan_Balance" THEN loan_data_df[y].Loan_Balance
        ELSE IF c = "Mortgage_Lump_Sum_Payment" THEN 0
        ELSE projection[y][c]]]

\* ------------------------------------------------------------ PayoffAdjuster
\* variant: the rewrite starts one year before the payoff year
PayoffRowsFromPreviousYear(md, user_retire_year, amount_paid_off, new_loan_balance_after_payoff) ==
  [y \in DOMAIN md |->
     IF md[y].Year >= user_retire_year - 1
     THEN [md[y] EXCEPT
             !.Loan_Balance = new_loan_balance_after_payoff,
             !.Annual_Mortgage_Payment = 0,
             !.Mortgage_Lump_Sum_Payment =
                IF md[y].Year = user_retire_year THEN amount_paid_off ELSE @,
             !.Total_Expenses = md[y].Total_Expenses_Excl_Mortgage]
     ELSE md[y]]

\* the rows from the payoff year on, rewritten
\* variant: Total_Expenses keeps the mortgage payment that the payoff removes
PayoffRowsStaleExpenses(md, user_retire_year, amount_paid_off, new_loan_balance_after_payoff) ==
  [y \in DOMAIN md |->
     IF md[y].Year >= user_retire_year
     THEN [md[y] EXCEPT
             !.Loan_Balance = new_loan_balance_after_payoff,
             !.Annual_Mortgage_Payment = 0,
             !.Mortgage_Lump_Sum_Payment =
                IF md[y].Year = user_retire_year THEN amount_paid_off ELSE @]
     ELSE md[y]]

PayoffRows(md, user_retire_year, amount_paid_off, new_loan_balance_after_payoff) ==
  [y \in DOMAIN md |->
     IF md[y].Year >= user_retire_year
     THEN [md[y] EXCEPT
             !.Loan_Balance = new_loan_balance_after_payoff,
             !.Annual_Mortgage_Payment = 0,
             !.Mortgage_Lump_Sum_Payment =
                IF md[y].Year = user_retire_year THEN amount_paid_off ELSE @,
             !.Total_Expenses = md[y].Total_Expenses_Excl_Mortgage]
     ELSE md[y]]

\* variant: Net_Cashflow of year 0 is not forced back to 0 after the rewrite
ApplyPayoffKeepYear0(md, user_retire_year, amount_paid_off, new_loan_balance_after_payoff) ==
  LET upd == PayoffRows(md, user_retire_year, amount_paid_off,
                        new_loan_balance_after_payoff)
      net == [y \in DOMAIN md |->
                upd[y].Total_Income - upd[y].Total_Expenses
                  - upd[y].Mortgage_Lump_Sum_Payment]
  IN  WithCashflow(upd, net, FALSE)

\* variant: only the payoff year itself is rewritten
ApplyPayoffOnlyPayoffYear(md, user_retire_year, amount_paid_off, new_loan_balance_after_payoff) ==
  LET upd == [y \in DOMAIN md |->
                IF md[y].Year = user_retire_year
                THEN [md[y] EXCEPT
                        !.Loan_Balance = new_loan_balance_after_payoff,
                        !.Annual_Mortgage_Payment = 0,
                        !.Mortgage_Lump_Sum_Payment = amount_paid_off,
                        !.Total_Expenses = md[y].Total_Expenses_Excl_Mortgage]
                ELSE md[y]]
      net == [y \in DOMAIN md |->
                upd[y].Total_Income - upd[y].Total_Expenses
                  - upd[y].Mortgage_Lump_Sum_Payment]
  IN  WithCashflow(upd, net, TRUE)

\* variant: the lump sum applied is not taken out of the cash flow
ApplyPayoffFreeMoney(md, user_retire_year, amount_paid_off, new_loan_balance_after_payoff) ==
  LET upd == PayoffRows(md, user_retire_year, amount_paid_off,
                        new_loan_balance_after_payoff)
      net == [y \in DOMAIN md |-> upd[y].Total_Income - upd[y].Total_Expenses]
  IN  WithCashflow(upd, net, TRUE)

\* the table rewrite done when amount_paid_off > 0
ApplyPayoff(md, user_retire_year, amount_paid_off, new_loan_balance_after_payoff) ==
  LET upd == PayoffRows(md, user_retire_year, amount_paid_off,
                        new_loan_balance_after_payoff)
      net == [y \in DOMAIN md |->
                upd[y].Total_Income - upd[y].Total_Expenses
                  - upd[y].Mortgage_Lump_Sum_Payment]
  IN  WithCashflow(upd, net, TRUE)

\* variant: the whole super amount is applied, not clamped to the balance
AmountPaidOffUnclamped(i, md) ==
  IF i.include_super_events /\ i.use_your_super_payoff
     /\ i.user_retire_year <= i.projection_years
     /\ i.user_retire_year \in DOMAIN md
  THEN Max(0, i.user_super_amount)
  ELSE 0

\* variant: the amount is clamped to the origination balance
AmountPaidOffOfOrigination(i, md) ==
  IF i.include_super_events /\ i.use_your_super_payoff
     /\ i.user_retire_year <= i.projection_years
     /\ i.user_retire_year \in DOMAIN md
  THEN Max(0, Min(i.user_super_amount, md[0].Loan_Balance))
  ELSE 0

\* variant: the payoff does not wait for the use-super-for-payoff flag
AmountPaidOffIgnoringFlag(i, md) ==
  IF i.include_super_events
     /\ i.user_retire_year <= i.projection_years
     /\ i.user_retire_year \in DOMAIN md
  THEN Max(0, Min(i.user_super_amount, md[i.user_retire_year].Loan_Balance))
  ELSE 0

\* amount_paid_off for the table md (0 when the adjustment is not triggered)
AmountPaidOff(i, md) ==
  IF i.include_super_events /\ i.use_your_super_payoff
     /\ i.user_retire_year <= i.projection_years
     /\ i.user_retire_year \in DOMAIN md
  THEN Max(0, Min(i.user_super_amount, md[i.user_retire_year].Loan_Balance))
  ELSE 0

PayoffAdjust(i, md) ==
  LET amount_paid_off == AmountPaidOff(i, md)
  IN  IF amount_paid_off > 0
      THEN LET loan_balance_at_payoff_year == md[i.user_retire_year].Loan_Balance
               new_loan_balance_after_payoff ==
                 Max(0, loan_balance_at_payoff_year - amount_paid_off)
           IN  ApplyPayoff(md, i.user_retire_year, amount_paid_off,
                           new_loan_balance_after_payoff)
      ELSE md

\* -------------------------------------------------------- ValuationAndRatios
\* variant: the ratio is not clipped at 0
FinalCalcsUnclipped(i, md) ==
  [y \in DOMAIN md |->
     LET pv == Grow(i.property_price, i.property_growth_rate, md[y].Year)
     IN  [c \in (DOMAIN md[y]) \cup {"Property_Value", "Equity", "LVR_Percent"} |->
            IF c = "Property_Value" THEN pv
            ELSE IF c = "Equity" THEN pv - md[y].Loan_Balance
            ELSE IF c = "LVR_Percent"
                 THEN IF pv = 0 \/ md[y].Loan_Balance = 0 THEN <<0, 1>>
                      ELSE <<md[y].Loan_Balance, pv>>
            ELSE md[y][c]]]

FinalCalcs(i, md) ==
  [y \in DOMAIN md |->
     LET pv == Grow(i.property_price, i.property_growth_rate, md[y].Year)
     IN  [c \in (DOMAIN md[y]) \cup {"Property_Value", "Equity", "LVR_Percent"} |->
            IF c = "Property_Value" THEN pv
            ELSE IF c = "Equity" THEN pv - md[y].Loan_Balance
            ELSE IF c = "LVR_Percent"
                 \* LVR_Percent / 100 as the rational <<balance, value>>;
                 \* x/0 -> NaN -> 0, negatives clipped to 0
                 THEN IF pv = 0 \/ md[y].Loan_Balance = 0
                         \/ ((md[y].Loan_Balance < 0) # (pv < 0)) THEN <<0, 1>>
                      ELSE <<md[y].Loan_Balance, pv>>
            ELSE md[y][c]]]

\* ---------------------------------------------------------- ScenarioEvaluator
\* variant: the compound scenario is listed first
risk_scenarios_stress_first ==
  << [Scenario |-> <<"Stress Test", "(Vacant 50%, Low Agist 50%, Rate +2%)">>,
      occupancy_factor_x2 |-> 1, agistment_factor_x2 |-> 1, interest_rate_increase |-> 2],
     [Scenario |-> <<"Base Case">>,
      occupancy_factor_x2 |-> 2, agistment_factor_x2 |-> 2, interest_rate_increase |-> 0],
     [Scenario |-> <<"No Rental Income">>,
      occupancy_factor_x2 |-> 0, agistment_factor_x2 |-> 2, interest_rate_increase |-> 0],
     [Scenario |-> <<"No Agistment Income">>,
      occupancy_factor_x2 |-> 2, agistment_factor_x2 |-> 0, interest_rate_increase |-> 0],
     [Scenario |-> <<"Reduced Agistment", "(50%)">>,
      occupancy_factor_x2 |-> 2, agistment_factor_x2 |-> 1, interest_rate_increase |-> 0],
     [Scenario |-> <<"Interest Rate", "+2%">>,
      occupancy_factor_x2 |-> 2, agistment_factor_x2 |-> 2, interest_rate_increase |-> 2],
     [Scenario |-> <<"Interest Rate", "+3%">>,
      occupancy_factor_x2 |-> 2, agistment_factor_x2 |-> 2, interest_rate_increase |-> 3] >>

\* the risk_scenarios dict in insertion order; a name is the sequence of its
\* phrases, the factors 0.0 / 0.5 / 1.0 are held in halves
risk_scenarios ==
  << [Scenario |-> <<"Base Case">>,
      occupancy_factor_x2 |-> 2, agistment_factor_x2 |-> 2, interest_rate_increase |-> 0],
     [Scenario |-> <<"No Rental Income">>,
      occupancy_factor_x2 |-> 0, agistment_factor_x2 |-> 2, interest_rate_increase |-> 0],
     [Scenario |-> <<"No Agistment Income">>,
      occupancy_factor_x2 |-> 2, agistment_factor_x2 |-> 0, interest_rate_increase |-> 0],
     [Scenario |-> <<"Reduced Agistment", "(50%)">>,
      occupancy_factor_x2 |-> 2, agistment_factor_x2 |-> 1, interest_rate_increase |-> 0],
     [Scenario |-> <<"Interest Rate", "+2%">>,
      occupancy_factor_x2 |-> 2, agistment_factor_x2 |-> 2, interest_rate_increase |-> 2],
     [Scenario |-> <<"Interest Rate", "+3%">>,
      occupancy_factor_x2 |-> 2, agistment_factor_x2 |-> 2, interest_rate_increase |-> 3],
     [Scenario |-> <<"Stress Test", "(Vacant 50%, Low Agist 50%, Rate +2%)">>,
      occupancy_factor_x2 |-> 1, agistment_factor_x2 |-> 1, interest_rate_increase |-> 2] >>

\* variant: the payment of the main calculation is reused for every scenario
ScenarioRowAtBaseRate(params, i, md, loan_amount) ==
  LET idx_yr1 == IF Len0(md) > 1 THEN 1 ELSE 0
      base_expenses_excl_mortgage_yr1 ==
        md[idx_yr1].Living_Expenses + md[idx_yr1].Education_Expenses
          + md[idx_yr1].Council_Rates + md[idx_yr1].Insurance
          + md[idx_yr1].Maintenance + md[idx_yr1].Agistment_Costs
          + md[idx_yr1].Additional_Property_Expenses
      scen_total_income ==
        md[idx_yr1].Employment_Income
          + MulDivRound(md[idx_yr1].Rental_Income, params.occupancy_factor_x2, 2)
          + MulDivRound(md[idx_yr1].Agistment_Income, params.agistment_factor_x2, 2)
      scen_interest_rate == i.interest_rate + params.interest_rate_increase
      scen_annual_mortgage ==
        calculate_monthly_mortgage_payment(loan_amount, i.interest_rate, i.loan_term) * 12
      scen_net_position == scen_total_income
                             - (base_expenses_excl_mortgage_yr1 + scen_annual_mortgage)
  IN  [Scenario |-> params.Scenario,
       Annual_Net_Position |-> scen_net_position,
       Monthly_Net_Position |-> (2 * scen_net_position + 12) \div 24,
       Interest_Rate |-> scen_interest_rate,
       Annual_Mortgage |-> scen_annual_mortgage]

\* one entry of scenario_results for the scenario params; the payment is
\* recomputed at rate + delta
ScenarioRow(params, i, md, loan_amount) ==
  LET idx_yr1 == IF Len0(md) > 1 THEN 1 ELSE 0
      prop_running_costs_yr1 ==
        md[idx_yr1].Council_Rates + md[idx_yr1].Insurance + md[idx_yr1].Maintenance
          + md[idx_yr1].Agistment_Costs + md[idx_yr1].Additional_Property_Expenses
      base_expenses_excl_mortgage_yr1 ==
        md[idx_yr1].Living_Expenses + md[idx_yr1].Education_Expenses
          + prop_running_costs_yr1
      scen_rental_income == MulDivRound(md[idx_yr1].Rental_Income,
                                        params.occupancy_factor_x2, 2)
      scen_agistment_income == MulDivRound(md[idx_yr1].Agistment_Income,
                                           params.agistment_factor_x2, 2)
      scen_total_income == md[idx_yr1].Employment_Income + scen_rental_income
                             + scen_agistment_income
      scen_interest_rate == i.interest_rate + params.interest_rate_increase
      scen_monthly_payment ==
        calculate_monthly_mortgage_payment(loan_amount, scen_interest_rate, i.loan_term)
      scen_annual_mortgage == scen_monthly_payment * 12
      scen_net_position == scen_total_income
                             - (base_expenses_excl_mortgage_yr1 + scen_annual_mortgage)
  IN  [Scenario |-> params.Scenario,
       Annual_Net_Position |-> scen_net_position,
       Monthly_Net_Position |-> (2 * scen_net_position + 12) \div 24,
       Interest_Rate |-> scen_interest_rate,
       Annual_Mortgage |-> scen_annual_mortgage]

\* risk_df: one row per scenario, in the order of the scenario list
ScenarioResults(scenarios, i, md, loan_amount) ==
  [k \in 1..Len(scenarios) |-> ScenarioRow(scenarios[k], i, md, loan_amount)]

\* risk_df['Scenario'].str.contains("Stress Test") for one name
ContainsStressTest(name) == \E k \in 1..Len(name) : name[k] = "Stress Test"

\* ------------------------------------------------------------------ inputs
LoanChoices == {4095, 16777215}          \* Final Loan Amount overrides
RateChoices == {0, 1200}                 \* annual interest rate, percent
SuperChoices == {0, 5000000, 20000000}   \* user super access amounts

\* the loan terms whose amortisation factor stays inside the explored range
TermsFor(rate) ==
  {t \in 1..MaxTerm : PowSat(1 + MonthlyRate(rate), 12 * t) <= PowCap}

\* a default scenario: LVR 86 with LMI capitalised, both earners retiring
BaseInput ==
  [property_price |-> 10000, other_upfront_costs |-> 5,
   total_available_deposit_funds |-> 1400,
   capitalize_lmi |-> TRUE, loan_override |-> 0,
   interest_rate |-> 1200, loan_term |-> 1, projection_years |-> MaxYears,
   annual_user_income |-> 100, annual_partner_income |-> 60,
   annual_rental_income |-> 32, annual_agistment_income |-> 16,
   annual_living_expenses |-> 50,
   num_children_boarding |-> 1, annual_boarding_fee_per_child |-> 10,
   annual_council_rates |-> 1, annual_insurance |-> 2, annual_maintenance |-> 4,
   annual_agistment_costs |-> 8, annual_additional_property_expenses |-> 3,
   income_growth_rate |-> 100, inflation_rate |-> 100, rental_growth_rate |-> 100,
   property_growth_rate |-> 0,
   include_super_events |-> TRUE, user_retire_year |-> 1,
   user_super_amount |-> 5000000, wife_retire_year |-> 2,
   wife_super_amount |-> 600, post_retirement_income_user |-> 30,
   post_retirement_income_partner |-> 20, use_your_super_payoff |-> TRUE,
   include_education_change |-> FALSE, years_until_edu_change_x2 |-> 4,
   new_annual_edu_cost_per_child |-> 0, duration_of_new_cost |-> 0,
   risk_analysis |-> TRUE]

\* the values the sidebar assigns when "Include Retirement/Super Events" is off
NoSuperEvents(i) ==
  [i EXCEPT !.include_super_events = FALSE,
            !.user_retire_year = i.loan_term + 1, !.user_super_amount = 0,
            !.post_retirement_income_user = 0,
            !.wife_retire_year = i.loan_term + 1, !.wife_super_amount = 0,
            !.post_retirement_income_partner = 0,
            !.use_your_super_payoff = FALSE]

\* loan and horizon variations
LoanInputs ==
  {[BaseInput EXCEPT !.loan_override = l, !.interest_rate = r, !.loan_term = t,
                     !.projection_years = n] :
     l \in LoanChoices \cup {0}, r \in RateChoices, t \in 1..MaxTerm, n \in 1..MaxYears}

\* loan variations crossed with the retirement events
EventInputs ==
  LET li == {i \in LoanInputs : i.loan_term \in TermsFor(i.interest_rate)}
  IN  {NoSuperEvents(i) : i \in li}
      \cup {[i EXCEPT !.user_retire_year = ur, !.user_super_amount = us,
                      !.wife_retire_year = wr, !.use_your_super_payoff = po] :
              i \in li, ur \in 0..(MaxYears + 1), us \in SuperChoices,
              wr \in {0, 2}, po \in BOOLEAN}

\* education phasing variations on the default loan
EducationInputs ==
  {[BaseInput EXCEPT !.include_education_change = TRUE,
                     !.years_until_edu_change_x2 = c2, !.duration_of_new_cost = d,
                     !.new_annual_edu_cost_per_child = 3,
                     !.num_children_boarding = k, !.inflation_rate = f,
                     !.projection_years = n] :
     c2 \in 0..(2 * MaxEduYears + 1), d \in 0..MaxDuration, k \in {1, 2},
     f \in {0, 100}, n \in 1..MaxEduYears}
  \cup {[BaseInput EXCEPT !.num_children_boarding = k, !.inflation_rate = f,
                          !.projection_years = n] :
          k \in {1, 2}, f \in {0, 100}, n \in 1..MaxEduYears}

\* price / deposit variations around the LMI tier boundaries (LVR 80, 85, 90, 95)
LvrChoices == {0, 1, 7999, 8000, 8001, 8500, 8501, 9000, 9001, 9500, 9501, 10000}
LmiInputs ==
  {[BaseInput EXCEPT !.property_price = 10000 * k,
                     !.total_available_deposit_funds = 10000 * k - l * k,
                     !.capitalize_lmi = c, !.risk_analysis = ra] :
     k \in {1, 2}, l \in LvrChoices \cup {-500}, c \in BOOLEAN, ra \in BOOLEAN}

\* property values that stay positive, fall to zero or change sign over the
\* years (growth 0, -5, -100, -200 percent; a property priced at 0)
GrowthChoices == {-200, -100, -5, 0}
ValuationInputs ==
  {[BaseInput EXCEPT !.property_price = p, !.property_growth_rate = g,
                     !.loan_override = l, !.loan_term = t,
                     !.use_your_super_payoff = po] :
     p \in {0, 10000}, g \in GrowthChoices, l \in {0, 4095},
     t \in TermsFor(BaseInput.interest_rate), po \in BOOLEAN}

Inputs == EventInputs \cup EducationInputs \cup LmiInputs \cup ValuationInputs

\* ------------------------------------------------------------------- state
VARIABLES inp, pc, base_loan_amount, estimated_lmi, initial_lvr, lmi_payable,
          loan_amount_auto, loan_amount_final, stamp_duty,
          funds_needed_for_deposit_and_costs, monthly_mortgage_payment,
          loan_balance, loan_data, projection_data, merged_data,
          risk_df, warnings, run, first_run

vars == <<inp, pc, base_loan_amount, estimated_lmi, initial_lvr, lmi_payable,
          loan_amount_auto, loan_amount_final, stamp_duty,
          funds_needed_for_deposit_and_costs, monthly_mortgage_payment,
          loan_balance, loan_data, projection_data, merged_data,
          risk_df, warnings, run, first_run>>

\* the names the script binds, before its first statement has run
FreshScript ==
  /\ base_loan_amount = 0 /\ estimated_lmi = 0 /\ initial_lvr = <<0, 1>>
  /\ lmi_payable = 0 /\ loan_amount_auto = 0 /\ loan_amount_final = 0
  /\ stamp_duty = 0 /\ funds_needed_for_deposit_and_costs = 0
  /\ monthly_mortgage_payment = 0
  /\ loan_balance = << >> /\ loan_data = << >>
  /\ projection_data = << >> /\ merged_data = << >>
  /\ risk_df = << >> /\ warnings = << >>

\* the first run of the script on the inputs i
Start(i) ==
  /\ inp = i
  /\ pc = "loan_details"
  /\ FreshScript
  /\ run = 1 /\ first_run = << >>

Init == \E i \in Inputs : Start(i)

\* variant: a capitalised premium is also left payable upfront
LoanAndDepositChargedTwice(i) ==
  LET base == Max(0, i.property_price - i.total_available_deposit_funds)
      est == estimate_lmi(i.property_price, base)
      over80 == est.lvr[1] > 80 * est.lvr[2]
  IN  [base_loan_amount |-> base, estimated_lmi |-> est.lmi, initial_lvr |-> est.lvr,
       lmi_payable |-> IF over80 THEN est.lmi ELSE 0,
       loan_amount_final |-> IF over80 /\ i.capitalize_lmi THEN base + est.lmi
                             ELSE base]

\* "Loan & Deposit Details": base loan, LMI estimate, capitalisation choice
LoanAndDeposit(i) ==
  LET base == Max(0, i.property_price - i.total_available_deposit_funds)
      est == estimate_lmi(i.property_price, base)
      over80 == est.lvr[1] > 80 * est.lvr[2]
  IN  [base_loan_amount |-> base, estimated_lmi |-> est.lmi, initial_lvr |-> est.lvr,
       lmi_payable |-> IF over80 /\ ~i.capitalize_lmi THEN est.lmi ELSE 0,
       loan_amount_final |-> IF over80 /\ i.capitalize_lmi THEN base + est.lmi
                             ELSE base]

\* variant: the capitalisation choice is switched off in the session on every run
SessionAfterLoanDetailsSwitchedOff(i, lvr) ==
  [i EXCEPT !.capitalize_lmi = FALSE]

\* st.session_state after the section: the capitalisation choice is kept above
\* an LVR of 80 and switched off otherwise
SessionAfterLoanDetails(i, lvr) ==
  [i EXCEPT !.capitalize_lmi = IF lvr[1] > 80 * lvr[2] THEN @ ELSE FALSE]

LoanDetails ==
  /\ pc = "loan_details"
  /\ LET ld == LoanAndDeposit(inp)
     IN  /\ base_loan_amount' = ld.base_loan_amount
         /\ estimated_lmi' = ld.estimated_lmi
         /\ initial_lvr' = ld.initial_lvr
         /\ lmi_payable' = ld.lmi_payable
         /\ loan_amount_auto' = ld.loan_amount_final
         \* the "Final Loan Amount" widget: the auto-calculated value unless
         \* the user overrides it (loan_override = 0 stands for no override)
         /\ loan_amount_final' = IF inp.loan_override = 0 THEN ld.loan_amount_final
                                 ELSE inp.loan_override
         /\ inp' = SessionAfterLoanDetails(inp, ld.initial_lvr)
  /\ pc' = "upfront"
  /\ UNCHANGED <<stamp_duty, funds_needed_for_deposit_and_costs,
                 monthly_mortgage_payment, loan_balance, loan_data,
                 projection_data, merged_data, risk_df, warnings, run, first_run>>

\* stamp duty, the deposit actually paid and the funds needed upfront
UpfrontCosts ==
  /\ pc = "upfront"
  /\ stamp_duty' = calculate_nsw_stamp_duty(inp.property_price)
  /\ LET actual_deposit_paid == Max(0, inp.property_price - loan_amount_final)
     IN  funds_needed_for_deposit_and_costs' =
           actual_deposit_paid + stamp_duty' + lmi_payable + inp.other_upfront_costs
  /\ pc' = "payment"
  /\ UNCHANGED <<inp, base_loan_amount, estimated_lmi, initial_lvr, lmi_payable,
                 loan_amount_auto, loan_amount_final, monthly_mortgage_payment,
                 loan_balance, loan_data, projection_data, merged_data, risk_df,
                 warnings, run, first_run>>

MortgagePayment ==
  /\ pc = "payment"
  /\ monthly_mortgage_payment' =
       calculate_monthly_mortgage_payment(loan_amount_final, inp.interest_rate,
                                          inp.loan_term)
  /\ warnings' = IF PaymentOverflows(loan_amount_final, inp.interest_rate, inp.loan_term)
                 THEN Append(warnings, "payment_overflow") ELSE warnings
  /\ pc' = "balance"
  /\ UNCHANGED <<stamp_duty, funds_needed_for_deposit_and_costs,
                 inp, base_loan_amount, estimated_lmi, initial_lvr, lmi_payable,
                 loan_amount_auto, loan_amount_final, loan_balance, loan_data,
                 projection_data, merged_data, risk_df, run, first_run>>

\* the balance projection called with the monthly payment it is given
LoanBalance ==
  /\ pc = "balance"
  /\ loan_balance' =
       calculate_loan_balance_over_time(loan_amount_final, inp.interest_rate,
                                        monthly_mortgage_payment, inp.loan_term)
  /\ warnings' = IF /\ loan_amount_final > 0 /\ inp.loan_term > 0
                    /\ monthly_mortgage_payment <= 0 /\ inp.interest_rate > 0
                 THEN Append(warnings, "zero_payment") ELSE warnings
  /\ pc' = "annual"
  /\ UNCHANGED <<stamp_duty, funds_needed_for_deposit_and_costs,
                 inp, base_loan_amount, estimated_lmi, initial_lvr, lmi_payable,
                 loan_amount_auto, loan_amount_final, monthly_mortgage_payment,
                 loan_data, projection_data, merged_data, risk_df, run, first_run>>

\* the caller's list after the call: a short list is extended in place
ExtendedInPlace(lst, loan_term_years) ==
  IF Len0(lst) = 0 \/ loan_term_years <= 0 THEN lst
  ELSE IF Len0(lst) < loan_term_years * 12 + 1
  THEN FitToTerm(lst, loan_term_years * 12 + 1)
  ELSE lst

AnnualTotals ==
  /\ pc = "annual"
  /\ loan_data' =
       calculate_annual_totals(loan_balance, monthly_mortgage_payment,
                               inp.loan_term, inp.projection_years, inp.interest_rate)
  /\ loan_balance' = ExtendedInPlace(loan_balance, inp.loan_term)
  /\ pc' = "project"
  /\ UNCHANGED <<stamp_duty, funds_needed_for_deposit_and_costs,
                 inp, base_loan_amount, estimated_lmi, initial_lvr, lmi_payable,
                 loan_amount_auto, loan_amount_final, monthly_mortgage_payment,
                 projection_data, merged_data, risk_df, warnings, run, first_run>>

Project ==
  /\ pc = "project"
  /\ projection_data' = project_income_expenses(inp, loan_data)
  /\ pc' = "merge"
  /\ UNCHANGED <<stamp_duty, funds_needed_for_deposit_and_costs,
                 inp, base_loan_amount, estimated_lmi, initial_lvr, lmi_payable,
                 loan_amount_auto, loan_amount_final, monthly_mortgage_payment,
                 loan_balance, loan_data, merged_data, risk_df, warnings, run,
                 first_run>>

Merge ==
  /\ pc = "merge"
  /\ merged_data' = MergeLoanBalance(projection_data, loan_data)
  /\ pc' = "payoff"
  /\ UNCHANGED <<stamp_duty, funds_needed_for_deposit_and_costs,
                 inp, base_loan_amount, estimated_lmi, initial_lvr, lmi_payable,
                 loan_amount_auto, loan_amount_final, monthly_mortgage_payment,
                 loan_balance, loan_data, projection_data, risk_df, warnings, run,
                 first_run>>

Payoff ==
  /\ pc = "payoff"
  /\ merged_data' = PayoffAdjust(inp, merged_data)
  /\ pc' = "final"
  /\ UNCHANGED <<stamp_duty, funds_needed_for_deposit_and_costs,
                 inp, base_loan_amount, estimated_lmi, initial_lvr, lmi_payable,
                 loan_amount_auto, loan_amount_final, monthly_mortgage_payment,
                 loan_balance, loan_data, projection_data, risk_df, warnings, run,
                 first_run>>

Final ==
  /\ pc = "final"
  /\ merged_data' = FinalCalcs(inp, merged_data)
  /\ pc' = IF inp.risk_analysis THEN "risk" ELSE "done"
  /\ UNCHANGED <<stamp_duty, funds_needed_for_deposit_and_costs,
                 inp, base_loan_amount, estimated_lmi, initial_lvr, lmi_payable,
                 loan_amount_auto, loan_amount_final, monthly_mortgage_payment,
                 loan_balance, loan_data, projection_data, risk_df, warnings, run,
                 first_run>>

\* "Risk Analysis (Year 1 Impact)": the scenario table
RiskAnalysis ==
  /\ pc = "risk"
  /\ risk_df' = ScenarioResults(risk_scenarios, inp, merged_data, loan_amount_final)
  \* one warning for every scenario whose payment overflows
  /\ LET overflowing ==
           {k \in 1..Len(risk_scenarios) :
              PaymentOverflows(loan_amount_final,
                               inp.interest_rate + risk_scenarios[k].interest_rate_increase,
                               inp.loan_term)}
     IN  warnings' = warnings \o [k \in 1..Cardinality(overflowing) |-> "payment_overflow"]
  /\ pc' = "done"
  /\ UNCHANGED <<stamp_duty, funds_needed_for_deposit_and_costs,
                 inp, base_loan_amount, estimated_lmi, initial_lvr, lmi_payable,
                 loan_amount_auto, loan_amount_final, monthly_mortgage_payment,
                 loan_balance, loan_data, projection_data, merged_data,
                 run, first_run>>

\* the tables a run leaves on the page
Tables ==
  [loan_amount_final |-> loan_amount_final,
   stamp_duty |-> stamp_duty,
   funds_needed_for_deposit_and_costs |-> funds_needed_for_deposit_and_costs,
   monthly_mortgage_payment |-> monthly_mortgage_payment,
   loan_balance |-> loan_balance, loan_data |-> loan_data,
   projection_data |-> projection_data, merged_data |-> merged_data,
   risk_df |-> risk_df, warnings |-> warnings]

\* the script is run again on the same widget values: every name is bound
\* afresh, only st.session_state (inp) survives
Rerun ==
  /\ pc = "done" /\ run = 1
  /\ first_run' = Tables
  /\ run' = 2
  /\ pc' = "loan_details"
  /\ base_loan_amount' = 0 /\ estimated_lmi' = 0 /\ initial_lvr' = <<0, 1>>
  /\ lmi_payable' = 0 /\ loan_amount_auto' = 0 /\ loan_amount_final' = 0
  /\ stamp_duty' = 0 /\ funds_needed_for_deposit_and_costs' = 0
  /\ monthly_mortgage_payment' = 0
  /\ loan_balance' = << >> /\ loan_data' = << >>
  /\ projection_data' = << >> /\ merged_data' = << >>
  /\ risk_df' = << >> /\ warnings' = << >>
  /\ UNCHANGED inp

Next == LoanDetails \/ UpfrontCosts \/ MortgagePayment \/ LoanBalance \/ AnnualTotals
        \/ Project \/ Merge \/ Payoff \/ Final \/ RiskAnalysis \/ Rerun

Spec == Init /\ [][Next]_vars

TypeOK == pc \in {"loan_details", "upfront", "payment", "balance", "annual", "project",
                  "merge", "payoff", "final", "risk", "done"}

\* ------------------------------------------------- the loan functions alone
FnLoans == {-4095, 0, 1, 2, 4095, 8770, 16777215}   \* loan_amount arguments
FnRates == {-1200, 0, 1200, 4800}                    \* annual_interest_rate
PaymentChoices == {-1, 0, 1, 5000, 16777216}         \* monthly_payment arguments

\* a balance that only accrues interest stays inside the explored range
GrowthFits(loan_amount, annual_interest_rate, loan_term_years) ==
  IF loan_amount <= 0 \/ annual_interest_rate <= 0 \/ loan_term_years <= 0
  THEN TRUE
  ELSE PowSatTo(1 + MonthlyRate(annual_interest_rate), loan_term_years * 12,
                BalanceCap \div loan_amount) <= BalanceCap \div loan_amount

\* the arguments explored: every sign of loan, rate and term
FnArgs ==
  {a \in FnLoans \X FnRates \X (-1..MaxTerm) :
     IF a[3] <= 0 \/ a[2] <= 0 \/ a[1] <= 0 THEN TRUE
     ELSE a[3] \in TermsFor(a[2]) \/ GrowthFits(a[1], a[2], a[3])}

\* the functions are about to be called with loan a[1], rate a[2], term a[3]
FnInit ==
  \E a \in FnArgs, n \in 1..MaxYears :
    /\ inp = [BaseInput EXCEPT !.loan_override = a[1], !.interest_rate = a[2],
                               !.loan_term = a[3], !.projection_years = n]
    /\ pc = "payment"
    /\ base_loan_amount = 0 /\ estimated_lmi = 0 /\ initial_lvr = <<0, 1>>
    /\ lmi_payable = 0 /\ loan_amount_auto = 0 /\ loan_amount_final = a[1]
    /\ stamp_duty = 0 /\ funds_needed_for_deposit_and_costs = 0
    /\ monthly_mortgage_payment = 0
    /\ loan_balance = << >> /\ loan_data = << >>
    /\ projection_data = << >> /\ merged_data = << >>
    /\ risk_df = << >> /\ warnings = << >>
    /\ run = 1 /\ first_run = << >>

\* calculate_loan_balance_over_time is about to be called with a monthly
\* payment that need not be the amortising one
ScheduledPayment ==
  /\ pc = "payment"
  /\ \E p \in PaymentChoices :
       /\ p <= 0 => GrowthFits(loan_amount_final, inp.interest_rate, inp.loan_term)
       /\ monthly_mortgage_payment' = p
  /\ pc' = "balance"
  /\ UNCHANGED <<stamp_duty, funds_needed_for_deposit_and_costs,
                 inp, base_loan_amount, estimated_lmi, initial_lvr, lmi_payable,
                 loan_amount_auto, loan_amount_final, loan_balance, loan_data,
                 projection_data, merged_data, risk_df, warnings, run, first_run>>

FnNext == MortgagePayment \/ ScheduledPayment \/ LoanBalance \/ AnnualTotals

FnSpec == FnInit /\ [][FnNext]_vars

\* ------------------------------------------------------ the upfront costs alone
\* property values around the six thresholds, values whose duty is a whole
\* number or carries a fraction, and values that are not positive
DutyValues ==
  {-10000, -1, 0, 1, 80, 81, 15999, 16000, 16001, 34999, 35000, 35001,
   92999, 93000, 93001, 161200, 161400, 161401, 167000, 167200, 229400,
   229600, 284000, 284200, 350999, 351000, 351001, 1000000, 1167999,
   1168000, 1168001, 1700000, 3000000, 3503999, 3504000, 3504001, 6000000}

\* the main calculation is about to start on a property of value v
DutyInit ==
  \E v \in DutyValues, c \in {0, 5}, l \in {0, 4095}, k \in {0, 170} :
    /\ inp = [BaseInput EXCEPT !.property_price = v, !.other_upfront_costs = c]
    /\ pc = "upfront"
    /\ base_loan_amount = 0 /\ estimated_lmi = k /\ initial_lvr = <<0, 1>>
    /\ lmi_payable = k /\ loan_amount_auto = l /\ loan_amount_final = l
    /\ stamp_duty = 0 /\ funds_needed_for_deposit_and_costs = 0
    /\ monthly_mortgage_payment = 0
    /\ loan_balance = << >> /\ loan_data = << >>
    /\ projection_data = << >> /\ merged_data = << >>
    /\ risk_df = << >> /\ warnings = << >>
    /\ run = 1 /\ first_run = << >>

DutyNext == UpfrontCosts

DutySpec == DutyInit /\ [][DutyNext]_vars

\* ------------------------------------------------------------------ claims
LoanDetailsDone == pc # "loan_details"
BalanceDone == pc \notin {"loan_details", "upfront", "payment", "balance"}
AnnualDone == BalanceDone /\ pc # "annual"
ProjectDone == AnnualDone /\ pc # "project"
AfterPayoff == pc \in {"final", "risk", "done"}

\* the payoff year and the amount min(super, balance at the payoff year)
PayoffYear == inp.user_retire_year
BalanceAtPayoff == loan_data[PayoffYear].Loan_Balance
AmountApplied == Min(inp.user_super_amount, BalanceAtPayoff)
PayoffApplies ==
  /\ AnnualDone
  /\ inp.include_super_events /\ inp.use_your_super_payoff
  /\ PayoffYear <= inp.projection_years
  /\ AmountApplied > 0

\* C1: in the final table Net_Cashflow[0] = 0, Cumulative_Cashflow[0] = 0 and
\* Cumulative_Cashflow[y] = Cumulative_Cashflow[y-1] + Net_Cashflow[y] for
\* every year y >= 1, whether or not the payoff adjustment was applied.
C1_CumulativeIsRunningSum ==
  AfterPayoff =>
    /\ merged_data[0].Net_Cashflow = 0
    /\ merged_data[0].Cumulative_Cashflow = 0
    /\ \A y \in 1..inp.projection_years :
         merged_data[y].Cumulative_Cashflow =
           merged_data[y - 1].Cumulative_Cashflow + merged_data[y].Net_Cashflow

\* a payoff applied in year 0, with money moving in later years
C1_Witness ==
  /\ pc = "done" /\ PayoffApplies /\ PayoffYear = 0
  /\ merged_data[0].Mortgage_Lump_Sum_Payment > 0
  /\ merged_data[0].Total_Income # merged_data[0].Total_Expenses
  /\ \E y \in 1..inp.projection_years : merged_data[y].Net_Cashflow # 0

\* C2: for loan > 0, term >= 1, rate >= 0, outside the zero-payment /
\* positive-rate branch, the monthly balance series never increases and is
\* exactly 0 at some index <= term_years*12.
C2_BalanceFallsToZero ==
  (/\ BalanceDone
   /\ loan_amount_final > 0 /\ inp.loan_term >= 1 /\ inp.interest_rate >= 0
   /\ ~(monthly_mortgage_payment <= 0 /\ inp.interest_rate > 0))
  => /\ \A m \in 1..(inp.loan_term * 12) : loan_balance[m] <= loan_balance[m - 1]
     /\ \E m \in 0..(inp.loan_term * 12) : loan_balance[m] = 0

\* interest accrued over all months of the monthly series
TotalInterest ==
  SumRange([m \in DOMAIN loan_balance |->
              Max(0, loan_balance[m] * MonthlyRate(inp.interest_rate))],
           0, inp.loan_term * 12)

\* sum of Annual_Mortgage_Payment over all rows of the annual loan table
TotalAnnualPayments ==
  SumRange([y \in DOMAIN loan_data |-> loan_data[y].Annual_Mortgage_Payment],
           0, inp.projection_years + 1)

\* C3: when the horizon covers the loan term, the Annual_Mortgage_Payment of
\* all rows adds up to the original principal plus the interest accrued over
\* all months (every month is counted in exactly one year's payment).  Stated
\* for the loans that amortise: positive rate, balance 0 at the end of the term.
C3_AnnualPaymentsRoundTrip ==
  (/\ AnnualDone /\ loan_amount_final > 0
   /\ inp.projection_years >= inp.loan_term
   /\ inp.interest_rate > 0 /\ loan_balance[inp.loan_term * 12] = 0)
  => TotalAnnualPayments = loan_amount_final + TotalInterest

\* C4 (as claimed): Net_Cashflow of the payoff year after the adjustment is
\* the unadjusted Net_Cashflow minus exactly the amount applied.
C4_NetReducedByAmountApplied ==
  (AfterPayoff /\ PayoffApplies)
  => merged_data[PayoffYear].Net_Cashflow =
       projection_data[PayoffYear].Net_Cashflow - AmountApplied

\* C4 (amended): for a payoff year p >= 1 the adjusted Net_Cashflow[p] is the
\* unadjusted one plus the year's removed mortgage payment minus the amount
\* applied (not the full super amount); for p = 0 it stays 0.
C4_NetReducedByAmountLessMortgage ==
  (AfterPayoff /\ PayoffApplies)
  => merged_data[PayoffYear].Net_Cashflow =
       IF PayoffYear >= 1
       THEN projection_data[PayoffYear].Net_Cashflow
              + projection_data[PayoffYear].Annual_Mortgage_Payment - AmountApplied
       ELSE 0

\* a payoff in a year that carried a mortgage payment, the super exceeding the
\* balance so that less than the full super amount is applied
C4_Witness ==
  /\ pc = "done" /\ PayoffApplies /\ PayoffYear >= 1
  /\ projection_data[PayoffYear].Annual_Mortgage_Payment > 0
  /\ AmountApplied < inp.user_super_amount
  /\ merged_data[PayoffYear].Mortgage_Lump_Sum_Payment = AmountApplied

\* C5: after a payoff at year p every year y >= p has Loan_Balance equal to
\* the balance at p minus the amount applied, Annual_Mortgage_Payment = 0 and
\* Total_Expenses = Total_Expenses_Excl_Mortgage; the balance is 0 when the
\* super covers the balance at p.
C5_PinnedFromPayoffYear ==
  (AfterPayoff /\ PayoffApplies)
  => \A y \in PayoffYear..inp.projection_years :
       /\ merged_data[y].Loan_Balance = BalanceAtPayoff - AmountApplied
       /\ merged_data[y].Annual_Mortgage_Payment = 0
       /\ merged_data[y].Total_Expenses = merged_data[y].Total_Expenses_Excl_Mortgage
       /\ (inp.user_super_amount >= BalanceAtPayoff => merged_data[y].Loan_Balance = 0)

\* a partial payoff with a later year that had a payment and another balance
C5_Witness ==
  /\ pc = "done" /\ PayoffApplies
  /\ AmountApplied < BalanceAtPayoff
  /\ \E y \in (PayoffYear + 1)..inp.projection_years :
       /\ loan_data[y].Annual_Mortgage_Payment > 0
       /\ loan_data[y].Loan_Balance # BalanceAtPayoff - AmountApplied
       /\ merged_data[y].Loan_Balance = BalanceAtPayoff - AmountApplied

\* C6: after a payoff at year p >= 1, Net_Cashflow[p] = Total_Income[p]
\* - Total_Expenses_Excl_Mortgage[p] - amount applied.
C6_PayoffLeavesCashflow ==
  (AfterPayoff /\ PayoffApplies /\ PayoffYear >= 1)
  => merged_data[PayoffYear].Net_Cashflow =
       merged_data[PayoffYear].Total_Income
         - merged_data[PayoffYear].Total_Expenses_Excl_Mortgage - AmountApplied

\* the super lump sum is in the payoff year's income and applied to the loan
C6_Witness ==
  /\ pc = "done" /\ PayoffApplies /\ PayoffYear >= 1
  /\ merged_data[PayoffYear].Lump_Sum_Income >= inp.user_super_amount
  /\ merged_data[PayoffYear].Loan_Balance = BalanceAtPayoff - AmountApplied
  /\ AmountApplied > 0

\* the education expense the phasing rule prescribes for year y
PhasedEducation(y) ==
  LET c == inp.years_until_edu_change_x2 \div 2
      d == inp.duration_of_new_cost
      k == inp.num_children_boarding
  IN  IF y <= c THEN Grow(k * inp.annual_boarding_fee_per_child, inp.inflation_rate, y)
      ELSE IF y <= c + d
           THEN Grow(k * inp.new_annual_edu_cost_per_child, inp.inflation_rate, y)
           ELSE 0

\* C7: with education phasing enabled, Education_Expenses[y] is the original
\* fee x inflation^y for y <= floor(change), the new fee x inflation^y for the
\* next `duration` years, and 0 afterwards.
C7_EducationPhases ==
  (ProjectDone /\ inp.include_education_change)
  => \A y \in 0..inp.projection_years :
       projection_data[y].Education_Expenses = PhasedEducation(y)

\* change at 3.5 years, duration 4: original fee in year 3, new fee in years
\* 4 and 7, nothing in year 8
C7_Witness ==
  /\ pc = "done" /\ inp.include_education_change
  /\ inp.years_until_edu_change_x2 = 7 /\ inp.duration_of_new_cost = 4
  /\ inp.projection_years >= 8 /\ inp.inflation_rate = 100
  /\ projection_data[3].Education_Expenses
       = 8 * inp.num_children_boarding * inp.annual_boarding_fee_per_child
  /\ projection_data[4].Education_Expenses
       = 16 * inp.num_children_boarding * inp.new_annual_edu_cost_per_child
  /\ projection_data[7].Education_Expenses > 0
  /\ projection_data[8].Education_Expenses = 0

\* C8: with retirement events enabled each earner's income is base x
\* income_growth^y before the own retirement year and the constant
\* post-retirement figure from it on, independently of the other earner; an
\* earner's super is in Lump_Sum_Income exactly in the own retirement year.
C8_EarnersRetireIndependently ==
  (ProjectDone /\ inp.include_super_events)
  => \A y \in 0..inp.projection_years :
       LET user == IF y < inp.user_retire_year
                   THEN Grow(inp.annual_user_income, inp.income_growth_rate, y)
                   ELSE inp.post_retirement_income_user
           partner == IF y < inp.wife_retire_year
                      THEN Grow(inp.annual_partner_income, inp.income_growth_rate, y)
                      ELSE inp.post_retirement_income_partner
       IN  /\ UserIncome(inp, y) = user
           /\ PartnerIncome(inp, y) = partner
           /\ projection_data[y].Employment_Income = user + partner
           /\ projection_data[y].Lump_Sum_Income =
                (IF y = inp.user_retire_year THEN inp.user_super_amount ELSE 0)
                + (IF y = inp.wife_retire_year THEN inp.wife_super_amount ELSE 0)

\* the user retired in year 1, the partner still working that year and
\* retiring in year 2, both lump sums received
C8_Witness ==
  /\ pc = "done" /\ inp.include_super_events
  /\ inp.user_retire_year = 1 /\ inp.wife_retire_year = 2
  /\ inp.projection_years >= 2 /\ inp.user_super_amount > 0
  /\ projection_data[1].Employment_Income
       = inp.post_retirement_income_user + 2 * inp.annual_partner_income
  /\ projection_data[1].Lump_Sum_Income = inp.user_super_amount
  /\ projection_data[2].Lump_Sum_Income = inp.wife_super_amount

\* a rational <<n, d>>, d > 0, n >= 0, in lowest terms
LowestTerms(q) == LET g == GCD(q[1], q[2]) IN <<q[1] \div g, q[2] \div g>>

\* C9: for price > 0 and loan >= 0 estimate_lmi returns the LVR loan/price x
\* 100 and a premium that is 0 exactly when the LVR is <= 80 (strictly
\* positive above 80, already at 80.01).
C9_PremiumIffAbove80 ==
  (LoanDetailsDone /\ inp.property_price > 0 /\ base_loan_amount >= 0)
  => /\ LowestTerms(initial_lvr) = LowestTerms(<<base_loan_amount * 100, inp.property_price>>)
     /\ estimated_lmi >= 0
     /\ (estimated_lmi = 0 <=> base_loan_amount * 100 <= 80 * inp.property_price)

\* an LVR of exactly 80.01 with a positive premium
C9_Witness ==
  /\ LoanDetailsDone
  /\ base_loan_amount * 10000 = 8001 * inp.property_price
  /\ estimated_lmi > 0

\* C10: the premium is charged exactly once: capitalised (final loan = base +
\* premium, nothing upfront) or upfront (final loan = base) above an LVR of
\* 80, neither at or below 80; (final loan - base) + upfront = premium.
C10_LmiChargedOnce ==
  LoanDetailsDone =>
    /\ IF base_loan_amount * 100 > 80 * inp.property_price
       THEN IF inp.capitalize_lmi
            THEN loan_amount_auto = base_loan_amount + estimated_lmi
                 /\ lmi_payable = 0
            ELSE loan_amount_auto = base_loan_amount
                 /\ lmi_payable = estimated_lmi
       ELSE loan_amount_auto = base_loan_amount /\ lmi_payable = 0
    /\ (loan_amount_auto - base_loan_amount) + lmi_payable = estimated_lmi

\* LVR above 80 with the premium capitalised
C10_Witness ==
  /\ LoanDetailsDone
  /\ base_loan_amount * 100 > 80 * inp.property_price
  /\ inp.capitalize_lmi /\ estimated_lmi > 0
  /\ loan_amount_auto = base_loan_amount + estimated_lmi /\ lmi_payable = 0

\* the mortgage payment function is called with a non-positive argument
NonPositiveArgument ==
  loan_amount_final <= 0 \/ inp.interest_rate <= 0 \/ inp.loan_term <= 0

C12_ZeroRateStraightLine ==
  [][(/\ MortgagePayment
      /\ loan_amount_final > 0 /\ inp.loan_term > 0 /\ inp.interest_rate = 0)
     => monthly_mortgage_payment' =
          MulDivRound(loan_amount_final, 1, inp.loan_term * 12)]_vars

\* C13: when (1+r)^n overflows the function does not raise: it returns 0 and
\* a warning is surfaced, and the loan schedule is still produced.
C13_OverflowGivesZeroAndWarning ==
  /\ [][(/\ MortgagePayment
         /\ PaymentOverflows(loan_amount_final, inp.interest_rate, inp.loan_term))
        => /\ monthly_mortgage_payment' = 0
           /\ warnings' = Append(warnings, "payment_overflow")]_vars
  /\ []((pc = "project" /\ Len(warnings) > 0 /\ warnings[1] = "payment_overflow")
        => /\ Len0(loan_balance) = inp.loan_term * 12 + 1
           /\ Len0(loan_data) = inp.projection_years + 1)

\* an overflowing power, payment 0, the warning shown, the annual table built
C13_Witness ==
  /\ pc = "project"
  /\ PaymentOverflows(loan_amount_final, inp.interest_rate, inp.loan_term)
  /\ loan_amount_final > 0 /\ monthly_mortgage_payment = 0
  /\ warnings = <<"payment_overflow", "zero_payment">>
  /\ Len0(loan_data) = inp.projection_years + 1

\* C14: running the whole projection a second time on the same inputs gives
\* the same tables (loan schedule, projection, payoff adjustment, valuation
\* columns, scenario rows) as the first run.
C14_SecondRunIdentical ==
  (run = 2 /\ pc = "done") => Tables = first_run

\* a second run finished, with a capitalised premium and a payoff applied
C14_Witness ==
  /\ run = 2 /\ pc = "done"
  /\ inp.capitalize_lmi /\ loan_amount_final = base_loan_amount + estimated_lmi
  /\ estimated_lmi > 0 /\ PayoffApplies
  /\ first_run.merged_data = merged_data
  /\ \E y \in 1..inp.projection_years : merged_data[y].Net_Cashflow # 0

\* the scenario names of the claim, in its order
ExpectedScenarioNames ==
  << <<"Base Case">>, <<"No Rental Income">>, <<"No Agistment Income">>,
     <<"Reduced Agistment", "(50%)">>, <<"Interest Rate", "+2%">>,
     <<"Interest Rate", "+3%">>,
     <<"Stress Test", "(Vacant 50%, Low Agist 50%, Rate +2%)">> >>

\* C15: the scenario table has exactly seven rows in the order Base Case, No
\* Rental Income, No Agistment Income, Reduced Agistment (50%), Interest Rate
\* +2%, Interest Rate +3%, Stress Test; the first row is the Base Case with
\* factors 1.0, 1.0 and delta 0, and exactly one row is named 'Stress Test',
\* with factors 0.5, 0.5 and delta +2.
C15_SevenScenariosInOrder ==
  (pc = "done" /\ inp.risk_analysis) =>
    /\ Len(risk_df) = 7
    /\ \A k \in 1..7 : risk_df[k].Scenario = ExpectedScenarioNames[k]
    /\ risk_df[1] = ScenarioRow([Scenario |-> <<"Base Case">>,
                                 occupancy_factor_x2 |-> 2, agistment_factor_x2 |-> 2,
                                 interest_rate_increase |-> 0],
                                inp, merged_data, loan_amount_final)
    /\ Cardinality({k \in 1..Len(risk_df) : ContainsStressTest(risk_df[k].Scenario)}) = 1
    /\ \A k \in 1..Len(risk_df) :
         ContainsStressTest(risk_df[k].Scenario) =>
           risk_df[k] = ScenarioRow([Scenario |-> risk_df[k].Scenario,
                                     occupancy_factor_x2 |-> 1,
                                     agistment_factor_x2 |-> 1,
                                     interest_rate_increase |-> 2],
                                    inp, merged_data, loan_amount_final)

\* the table is built; the income factors and the rate delta show in its rows
C15_Witness ==
  /\ pc = "done" /\ inp.risk_analysis /\ Len(risk_df) = 7
  /\ risk_df[2].Annual_Net_Position < risk_df[1].Annual_Net_Position
  /\ risk_df[7].Annual_Net_Position < risk_df[4].Annual_Net_Position
  /\ risk_df[7].Interest_Rate = inp.interest_rate + 2
  /\ risk_df[1].Interest_Rate = inp.interest_rate

\* the payoff adjustment is reached: events on, flag set, year in the horizon
PayoffTriggered ==
  /\ inp.include_super_events /\ inp.use_your_super_payoff
  /\ PayoffYear <= inp.projection_years

\* C16: the amount applied is min(super, balance at the payoff year) clamped
\* below at 0: 0 <= amount <= balance at the payoff year, amount <= super, and
\* the balance after the payoff, balance - amount, is never negative.
C16_AmountClamped ==
  (AfterPayoff /\ PayoffTriggered) =>
    LET amount == merged_data[PayoffYear].Mortgage_Lump_Sum_Payment
    IN  /\ amount = Max(0, Min(inp.user_super_amount, BalanceAtPayoff))
        /\ 0 <= amount /\ amount <= BalanceAtPayoff
        /\ amount <= inp.user_super_amount
        /\ merged_data[PayoffYear].Loan_Balance = BalanceAtPayoff - amount
        /\ merged_data[PayoffYear].Loan_Balance >= 0

\* a super amount larger than the balance owed: only the balance is applied
C16_Witness ==
  /\ pc = "done" /\ PayoffTriggered
  /\ BalanceAtPayoff > 0 /\ inp.user_super_amount > BalanceAtPayoff
  /\ merged_data[PayoffYear].Mortgage_Lump_Sum_Payment = BalanceAtPayoff
  /\ merged_data[PayoffYear].Loan_Balance = 0

\* C17: unless retirement events are enabled, the use-super-for-payoff flag
\* is set, the retirement year is <= projection_years and the amount applied
\* is > 0, Loan_Balance, Annual_Mortgage_Payment, Total_Expenses, Net_Cashflow
\* and Cumulative_Cashflow stay as the projector produced them in every year.
C17_PayoffOnlyWhenTriggered ==
  (AfterPayoff /\ ~PayoffApplies) =>
    \A y \in 0..inp.projection_years :
      /\ merged_data[y].Loan_Balance = loan_data[y].Loan_Balance
      /\ merged_data[y].Annual_Mortgage_Payment = projection_data[y].Annual_Mortgage_Payment
      /\ merged_data[y].Total_Expenses = projection_data[y].Total_Expenses
      /\ merged_data[y].Net_Cashflow = projection_data[y].Net_Cashflow
      /\ merged_data[y].Cumulative_Cashflow = projection_data[y].Cumulative_Cashflow
      /\ merged_data[y].Mortgage_Lump_Sum_Payment = 0

\* everything a payoff needs except the flag: super, a balance owed, the year
\* inside the horizon, later years still carrying a mortgage payment
C17_Witness ==
  /\ pc = "done" /\ inp.include_super_events /\ ~inp.use_your_super_payoff
  /\ PayoffYear <= inp.projection_years
  /\ inp.user_super_amount > 0 /\ BalanceAtPayoff > 0
  /\ \E y \in PayoffYear..inp.projection_years :
       merged_data[y].Annual_Mortgage_Payment > 0
  /\ merged_data[PayoffYear].Loan_Balance = BalanceAtPayoff

\* C18: a payoff applied at year p leaves Loan_Balance,
\* Annual_Mortgage_Payment, Total_Expenses, Net_Cashflow and hence
\* Cumulative_Cashflow of every year y < p unchanged.
C18_EarlierYearsUnchanged ==
  (AfterPayoff /\ PayoffApplies) =>
    \A y \in 0..(PayoffYear - 1) :
      /\ merged_data[y].Loan_Balance = loan_data[y].Loan_Balance
      /\ merged_data[y].Annual_Mortgage_Payment = projection_data[y].Annual_Mortgage_Payment
      /\ merged_data[y].Total_Expenses = projection_data[y].Total_Expenses
      /\ merged_data[y].Net_Cashflow = projection_data[y].Net_Cashflow
      /\ merged_data[y].Cumulative_Cashflow = projection_data[y].Cumulative_Cashflow

\* a payoff in year 2 after a year with a mortgage payment and a cash flow,
\* the payoff year itself rewritten
C18_Witness ==
  /\ pc = "done" /\ PayoffApplies /\ PayoffYear = 2
  /\ merged_data[1].Annual_Mortgage_Payment > 0
  /\ merged_data[1].Net_Cashflow # 0
  /\ merged_data[2].Net_Cashflow # projection_data[2].Net_Cashflow
  /\ merged_data[2].Cumulative_Cashflow # projection_data[2].Cumulative_Cashflow

\* C19: calculate_annual_totals returns projection_years+1 rows with Year =
\* 0..projection_years; Loan_Balance[y] is the monthly series at index y*12
\* for y <= loan term and 0 for y > loan term; Annual_Mortgage_Payment is 0 in
\* year 0 and in every year y > loan term.
C19_AnnualRows ==
  (pc = "project") =>
    /\ DOMAIN loan_data = 0..inp.projection_years
    /\ \A y \in 0..inp.projection_years :
         /\ loan_data[y].Year = y
         /\ loan_data[y].Loan_Balance =
              IF y <= inp.loan_term THEN loan_balance[y * 12] ELSE 0
         /\ (y = 0 \/ y > inp.loan_term) => loan_data[y].Annual_Mortgage_Payment = 0

\* a horizon beyond the loan term: balance snapshots inside the term, a
\* payment inside the term, zeros after it
C19_Witness ==
  /\ pc = "project" /\ inp.loan_term = 2 /\ inp.projection_years = 3
  /\ loan_balance[0] > 0 /\ loan_balance[12] > 0
  /\ loan_balance[12] # loan_balance[0]
  /\ loan_data[1].Loan_Balance = loan_balance[12]
  /\ loan_data[1].Annual_Mortgage_Payment > 0
  /\ loan_data[3].Loan_Balance = 0 /\ loan_data[3].Annual_Mortgage_Payment = 0

\* C20: for a loan >= 0 and a term >= 1 calculate_loan_balance_over_time
\* returns term_years*12+1 entries, the first being the origination balance,
\* none negative, and every entry after the first 0 is 0, whatever the
\* scheduled payment (in particular a positive one that repays early).
C20_BalanceSeriesShape ==
  (pc = "annual" /\ loan_amount_final >= 0 /\ inp.loan_term >= 1) =>
    /\ DOMAIN loan_balance = 0..(inp.loan_term * 12)
    /\ loan_balance[0] = loan_amount_final
    /\ \A m \in DOMAIN loan_balance : loan_balance[m] >= 0
    /\ \A m \in DOMAIN loan_balance : \A k \in DOMAIN loan_balance :
         (loan_balance[m] = 0 /\ k > m) => loan_balance[k] = 0

\* a positive payment that repays the loan before the final month
C20_Witness ==
  /\ pc = "annual" /\ loan_amount_final > 0 /\ monthly_mortgage_payment > 0
  /\ \E m \in 2..(inp.loan_term * 12 - 1) :
       /\ loan_balance[m - 1] > 0 /\ loan_balance[m - 1] < loan_amount_final
       /\ loan_balance[m] = 0
       /\ loan_balance[inp.loan_term * 12] = 0

\* the balance projection has run on a positive loan and term with a
\* scheduled payment that is not positive
ZeroPaymentCase ==
  /\ pc = "annual" /\ loan_amount_final > 0 /\ inp.loan_term > 0
  /\ monthly_mortgage_payment <= 0

\* C21: with a positive loan and term and a scheduled payment <= 0, the
\* series has term*12+1 entries; at a positive rate every entry is the
\* previous entry times (1 + monthly rate) and the warning is emitted, at a
\* rate <= 0 every entry is the origination balance
C21_ZeroPaymentSeries ==
  ZeroPaymentCase =>
    /\ Len0(loan_balance) = inp.loan_term * 12 + 1
    /\ loan_balance[0] = loan_amount_final
    /\ IF inp.interest_rate > 0
       THEN /\ \A m \in 1..(inp.loan_term * 12) :
                 loan_balance[m]
                   = loan_balance[m - 1] * (1 + MonthlyRate(inp.interest_rate))
            /\ \E k \in 1..Len(warnings) : warnings[k] = "zero_payment"
       ELSE \A m \in 0..(inp.loan_term * 12) : loan_balance[m] = loan_amount_final

\* a balance that has grown over a year without a payment, with its warning
C21_Witness ==
  /\ ZeroPaymentCase /\ inp.interest_rate > 0
  /\ loan_balance[12] > loan_balance[0]
  /\ \E k \in 1..Len(warnings) : warnings[k] = "zero_payment"

\* C22: in the table returned by project_income_expenses, for every year
\* Total_Income is employment + rental + agistment + lump sums, Total_Expenses
\* is the seven expense categories plus the Annual_Mortgage_Payment of the
\* loan row of the same year (0 without such a row), and Net_Cashflow is
\* Total_Income - Total_Expenses from year 1 on and 0 in year 0
C22_TotalsOfTheProjection ==
  ProjectDone =>
    \A y \in 0..inp.projection_years :
      LET row == projection_data[y]
          mortgage == IF \E k \in DOMAIN loan_data : loan_data[k].Year = y
                      THEN loan_data[CHOOSE k \in DOMAIN loan_data :
                                       loan_data[k].Year = y].Annual_Mortgage_Payment
                      ELSE 0
      IN  /\ row.Year = y
          /\ row.Total_Income = row.Employment_Income + row.Rental_Income
                                  + row.Agistment_Income + row.Lump_Sum_Income
          /\ row.Annual_Mortgage_Payment = mortgage
          /\ row.Total_Expenses
               = row.Living_Expenses + row.Education_Expenses + row.Council_Rates
                   + row.Insurance + row.Maintenance + row.Agistment_Costs
                   + row.Additional_Property_Expenses + mortgage
          /\ row.Net_Cashflow = IF y = 0 THEN 0
                                ELSE row.Total_Income - row.Total_Expenses

\* a projected year with a lump sum and a mortgage payment in its totals
C22_Witness ==
  /\ ProjectDone
  /\ \E y \in 1..inp.projection_years :
       /\ projection_data[y].Lump_Sum_Income > 0
       /\ projection_data[y].Annual_Mortgage_Payment > 0
       /\ projection_data[y].Net_Cashflow
            = projection_data[y].Total_Income - projection_data[y].Total_Expenses
       /\ projection_data[0].Total_Income > 0 /\ projection_data[0].Net_Cashflow = 0

\* the valuation columns have been added to the final table
AfterFinal == pc \in {"risk", "done"}

\* the balance of year y after the payoff adjustment, from the loan table
BalanceAfterPayoff(y) ==
  IF PayoffApplies /\ y >= PayoffYear THEN BalanceAtPayoff - AmountApplied
  ELSE loan_data[y].Loan_Balance

\* C23: for every year of the final table Equity = Property_Value -
\* Loan_Balance with the balance after the payoff adjustment, LVR_Percent is
\* never negative and is 0 whenever Property_Value is zero or negative, and
\* LVR_Percent = Loan_Balance / Property_Value x 100 otherwise
C23_EquityAndLvr ==
  AfterFinal =>
    \A y \in 0..inp.projection_years :
      LET row == merged_data[y]
          pv == row.Property_Value
          lvr == row.LVR_Percent
      IN  /\ row.Loan_Balance = BalanceAfterPayoff(y)
          /\ row.Equity = pv - BalanceAfterPayoff(y)
          /\ lvr[2] # 0
          /\ (lvr[1] >= 0) = (lvr[2] > 0) \/ lvr[1] = 0
          /\ pv <= 0 => lvr[1] = 0
          /\ pv > 0 => LowestTerms(lvr) = LowestTerms(<<row.Loan_Balance, pv>>)

\* a final table with an outstanding balance in a year of negative property
\* value, in a year of zero value and in a year of positive value
C23_Witness ==
  /\ AfterFinal
  /\ \E y \in 0..inp.projection_years :
       /\ merged_data[y].Property_Value < 0 /\ merged_data[y].Loan_Balance > 0
       /\ merged_data[y].LVR_Percent = <<0, 1>>
       /\ merged_data[y].Equity < 0
  /\ \E y \in 0..inp.projection_years :
       /\ merged_data[y].Property_Value > 0 /\ merged_data[y].Loan_Balance > 0
       /\ merged_data[y].LVR_Percent[1] > 0

\* the stamp duty has been computed for the property price
DutyDone == pc \notin {"loan_details", "upfront"}

\* the ceiling of base + rate * (value - floor) in exact arithmetic, for the
\* bracket chosen by the inclusive upper thresholds
ScheduleDuty(v) ==
  IF v <= 16000 THEN CeilDiv(v, 80)
  ELSE IF v <= 35000 THEN CeilDiv(200 * 200 + (v - 16000) * 3, 200)
  ELSE IF v <= 93000 THEN CeilDiv(485 * 400 + (v - 35000) * 7, 400)
  ELSE IF v <= 351000 THEN CeilDiv(1500 * 200 + (v - 93000) * 7, 200)
  ELSE IF v <= 1168000 THEN CeilDiv(10530 * 200 + (v - 351000) * 9, 200)
  ELSE IF v <= 3504000 THEN CeilDiv(47295 * 200 + (v - 1168000) * 11, 200)
  ELSE CeilDiv(175775 * 100 + (v - 3504000) * 7, 100)

\* C24: calculate_nsw_stamp_duty returns 0 for every property value <= 0 and
\* for every positive value the ceiling of bracket base + marginal rate x
\* excess over the bracket floor, the bracket chosen by the inclusive upper
\* thresholds 16,000 / 35,000 / 93,000 / 351,000 / 1,168,000 / 3,504,000
C24_DutyIsCeilingOfSchedule ==
  DutyDone =>
    stamp_duty = IF inp.property_price <= 0 THEN 0
                 ELSE ScheduleDuty(inp.property_price)

\* C30: the schedule is continuous and monotone: at each of the six
\* thresholds the formula of the upper bracket gives the duty that the lower
\* bracket's formula returned, and a property value that is not larger never
\* pays a larger duty
C30_ContinuousAndMonotone ==
  DutyDone =>
    /\ \A k \in 1..6 :
         inp.property_price = DutyBrackets[k].upto
           => /\ stamp_duty = DutyInBracket(k, inp.property_price)
              /\ stamp_duty = DutyInBracket(k + 1, inp.property_price)
    /\ \A v \in DutyValues :
         /\ v <= inp.property_price => calculate_nsw_stamp_duty(v) <= stamp_duty
         /\ v >= inp.property_price => calculate_nsw_stamp_duty(v) >= stamp_duty

\* the duty of a property priced at the threshold 351,000, between the
\* duties of its neighbours
C30_Witness ==
  /\ DutyDone /\ inp.property_price = 351000 /\ stamp_duty = 10530
  /\ calculate_nsw_stamp_duty(350999) = 10530
  /\ calculate_nsw_stamp_duty(351001) = 10531

\* the scenario table has been computed
RiskDone == pc = "done" /\ inp.risk_analysis

\* C25: every scenario uses the unchanged final loan amount and loan term, an
\* interest rate of base rate + delta, an annual mortgage of 12 x the monthly
\* payment recomputed at that rate, and net position = Year-1 employment
\* income + Year-1 rental x occupancy factor + Year-1 agistment x agistment
\* factor - (Year-1 non-mortgage expenses + that annual mortgage); a scenario
\* with delta 0 has the annual mortgage of the Base Case and differs from it
\* only by the removed income
C25_ScenarioRows ==
  RiskDone =>
    \A k \in 1..Len(risk_scenarios) :
      LET sc == risk_scenarios[k]
          row == risk_df[k]
          yr1 == merged_data[1]
          removed_x2 == (2 - sc.occupancy_factor_x2) * yr1.Rental_Income
                          + (2 - sc.agistment_factor_x2) * yr1.Agistment_Income
      IN  /\ row.Interest_Rate = inp.interest_rate + sc.interest_rate_increase
          /\ row.Annual_Mortgage
               = 12 * calculate_monthly_mortgage_payment(
                        loan_amount_final, row.Interest_Rate, inp.loan_term)
          /\ 2 * row.Annual_Net_Position
               = 2 * yr1.Employment_Income
                   + sc.occupancy_factor_x2 * yr1.Rental_Income
                   + sc.agistment_factor_x2 * yr1.Agistment_Income
                   - 2 * (yr1.Total_Expenses_Excl_Mortgage + row.Annual_Mortgage)
          /\ sc.interest_rate_increase = 0
               => /\ row.Annual_Mortgage = risk_df[1].Annual_Mortgage
                  /\ 2 * row.Annual_Net_Position
                       = 2 * risk_df[1].Annual_Net_Position - removed_x2

\* a scenario table whose rate scenarios cost more than the Base Case and
\* whose income scenarios lose exactly the removed income
C25_Witness ==
  /\ RiskDone
  /\ risk_df[1].Annual_Mortgage > 0
  /\ risk_df[5].Annual_Mortgage > risk_df[1].Annual_Mortgage
  /\ risk_df[6].Annual_Mortgage > risk_df[5].Annual_Mortgage
  /\ risk_df[7].Annual_Mortgage = risk_df[5].Annual_Mortgage
  /\ merged_data[1].Rental_Income > 0
  /\ risk_df[2].Annual_Net_Position
       = risk_df[1].Annual_Net_Position - merged_data[1].Rental_Income
  /\ risk_df[2].Annual_Mortgage = risk_df[1].Annual_Mortgage

\* C26: in the rows returned by calculate_annual_totals the loan balance only
\* falls through reported payments: for every year y in 1..projection_years,
\* Loan_Balance[y-1] - Loan_Balance[y] <= Annual_Mortgage_Payment[y],
\* including the last year of the loan term and the first year after it
C26_BalanceFallsThroughPayments ==
  AnnualDone =>
    \A y \in 1..inp.projection_years :
      loan_data[y - 1].Loan_Balance - loan_data[y].Loan_Balance
        <= loan_data[y].Annual_Mortgage_Payment

\* the super amounts of the earners who retire within the horizon
SuperWithinHorizon ==
  (IF inp.user_retire_year \in 0..inp.projection_years
   THEN inp.user_super_amount ELSE 0)
  + (IF inp.wife_retire_year \in 0..inp.projection_years
     THEN inp.wife_super_amount ELSE 0)

\* C27: with retirement events enabled and no payoff applied, every super
\* lump sum of an earner retiring in year 0..N is counted exactly once:
\* Cumulative_Cashflow[N] is the sum over the years 1..N of non-lump income
\* - expenses, plus the super amounts of all earners retiring within the horizon
C27_EverySuperCountedOnce ==
  (AfterPayoff /\ inp.include_super_events /\ ~PayoffApplies) =>
    LET N == inp.projection_years
        ordinary == [y \in 0..N |->
                       merged_data[y].Total_Income - merged_data[y].Lump_Sum_Income
                         - merged_data[y].Total_Expenses]
    IN  merged_data[N].Cumulative_Cashflow
          = SumRange(ordinary, 1, N + 1) + SuperWithinHorizon

\* the amount applied to the mortgage in year y
AppliedInYear(y) == IF PayoffApplies /\ y = PayoffYear THEN AmountApplied ELSE 0

\* C28: in the final table, after the payoff adjustment if any, for every
\* year Total_Expenses = Total_Expenses_Excl_Mortgage + Annual_Mortgage_Payment,
\* and for every year y >= 1 Net_Cashflow = Total_Income - Total_Expenses -
\* the amount applied to the mortgage in year y, which is 0 in every year
\* except the payoff year
C28_ExpenseColumnsConsistent ==
  AfterPayoff =>
    \A y \in 0..inp.projection_years :
      LET row == merged_data[y]
      IN  /\ row.Total_Expenses
               = row.Total_Expenses_Excl_Mortgage + row.Annual_Mortgage_Payment
          /\ row.Mortgage_Lump_Sum_Payment = AppliedInYear(y)
          /\ y >= 1 => row.Net_Cashflow
                         = row.Total_Income - row.Total_Expenses - AppliedInYear(y)

\* a payoff in a year >= 1 that removes a mortgage payment from the expenses
C28_Witness ==
  /\ AfterPayoff /\ PayoffApplies /\ PayoffYear >= 1
  /\ \E y \in PayoffYear..inp.projection_years :
       /\ loan_data[y].Annual_Mortgage_Payment > 0
       /\ merged_data[y].Total_Expenses = merged_data[y].Total_Expenses_Excl_Mortgage
  /\ merged_data[PayoffYear].Net_Cashflow
       = merged_data[PayoffYear].Total_Income - merged_data[PayoffYear].Total_Expenses
           - AmountApplied

\* Year 1 carries no lump sum and no payoff is applied at year 0 or 1
PlainYear1 ==
  /\ RiskDone
  /\ merged_data[1].Lump_Sum_Income = 0
  /\ ~(PayoffApplies /\ PayoffYear <= 1)

\* C29: when Year 1 contains no lump-sum income and no payoff adjustment is
\* applied at year 0 or 1, the Base Case scenario row agrees with the Year-1
\* row of the projection table: its annual mortgage equals
\* Annual_Mortgage_Payment[1] and its net position equals Net_Cashflow[1],
\* for every loan term >= 1
C29_BaseCaseIsYear1 ==
  PlainYear1 =>
    /\ risk_df[1].Annual_Mortgage = merged_data[1].Annual_Mortgage_Payment
    /\ risk_df[1].Annual_Net_Position = merged_data[1].Net_Cashflow

====
